---- MODULE Spec2Model ----
(***************************************************************************)
(* Verification model of the step execution engine of                      *)
(* google-cloud-workflow-emulator (internal/workflow, internal/expression, *)
(* internal/types).                                                        *)
(*                                                                         *)
(* The engine is modelled component by component.  Every component has    *)
(* its own group of variables and its own specification:                   *)
(*   Spec        Workflow.Execute / namedStep.Execute (the step loop)      *)
(*   SpecSwitch  newSwitchStep / switchStep.Execute                        *)
(*   SpecTry     tryStep.Execute / tryStep.execute / exceptStep.execute    *)
(*   SpecPar     forStep.executeInParallel from the `shared` loop on (the  *)
(*               enumeration of the visible keys before it is SpecKeys),   *)
(*               with the assign and call steps its tasks execute          *)
(*   SpecCompile anonymousStepDef.compile and the new...Step constructors  *)
(*   SpecSet     types.SymbolTable: Set / set on a chain of scopes         *)
(*   SpecFor     forStep.executeInSerial / forStepsWorkflow.execute        *)
(*   SpecLib     defaults.DefaultSymbolTable under the assign steps of     *)
(*               successive invocations                                    *)
(*   SpecRoot    WorkflowRoot.Execute and calls between workflows          *)
(*   SpecCall    types.NewFunction / reflectFunc.Call                      *)
(*   SpecDefault list and map defaults handed to calls                     *)
(*   SpecExpr    calculateBinaryOperation.execute on two operands          *)
(*   SpecParse   lexer.consume / parser.constructAST / constructOperation  *)
(*               and the evaluation of the parsed operation                *)
(*   SpecNumber  decodeJSONNumber on the text of a JSON number             *)
(*   SpecServer  NewHTTPHandler, the reloads of the workflow file and the  *)
(*               executions the handler starts                             *)
(*   SpecEvents  events.await_callback and the handler of its endpoint     *)
(*   SpecKeys    SymbolTable.KeysChan and the loop that reads it           *)
(*   SpecHandler exceptStep.execute and the scope of the handler           *)
(* A specification leaves the variables of the other components idle.      *)
(***************************************************************************)
EXTENDS Integers, Sequences, FiniteSets, TLC

VARIABLES
    \* ---- Workflow.Execute ------------------------------------------------
    wfDoc,      \* the compiled workflow: sequence of named steps in document order
    wfParam,    \* how the single parameter of the workflow is supplied
    wfPc,       \* "idle" | "start" | "loop" | "done"
    wfCur,      \* index in wfDoc of the step held by the local `step`
    wfTrace,    \* indexes of the steps executed so far, in order
    wfRet,      \* value returned by Workflow.Execute
    wfErr       \* error returned by Workflow.Execute: [kind, at]

wfVars == <<wfDoc, wfParam, wfPc, wfCur, wfTrace, wfRet, wfErr>>

VARIABLES
    \* ---- newSwitchStep / switchStep.Execute -------------------------------
    swDoc,       \* the `switch` list of the document
    swConds,     \* switchStep.conditions
    swDefault,   \* switchStep.defaultStep: "none" or the body
    swPc,        \* "idle" | "compile" | "rejected" | "loop" | "after" | "done"
    swI,         \* loop index of switchStep.Execute
    swEvaluated, \* indexes of the conditions evaluated so far, in order
    swRan,       \* bodies executed so far: index of the condition, 0 for the default
    swOut        \* (ret, next, err) returned by switchStep.Execute

swVars == <<swDoc, swConds, swDefault, swPc, swI, swEvaluated, swRan, swOut>>

VARIABLES
    \* ---- tryStep.Execute / tryStep.execute / exceptStep.execute -----------
    tryDef,      \* the try step: its retry policy and whether it has an except
    tryPc,       \* "idle" | "start" | "body" | "predicate" | "backoff" | "refused" | "done"
    tryRetry,    \* the *retryStatus handed down the recursion
    tryRuns,     \* outcome of every execution of the body, in order
    tryErr,      \* the local `err` of tryStep.execute: the error of the last body run
    tryPreds,    \* number of evaluations of the retry predicate
    trySleeps,   \* durations passed to time.Sleep, in order
    tryHandled,  \* outcomes of the runs of the except handler, in order
    tryOut       \* (ret, next, err) returned by tryStep.Execute

tryVars == <<tryDef, tryPc, tryRetry, tryRuns, tryErr, tryPreds, trySleeps, tryHandled, tryOut>>

VARIABLES
    \* ---- forStep.executeInParallel and the steps of its tasks -------------
    parDef,      \* the parallel step: shared list, number of elements, body step
    parPc,       \* "idle" | "share" | "spawn" | "wait" | "returned" | "crashed"
    parOrig,     \* Symbols of ev.SymbolTable, the scope of the invocation
    parClone,    \* Symbols of the ShallowClone, parent scope of every task
    parShared,   \* inheritedVariables.Shared, "absent" for a missing key
    parHandle,   \* the SharedVariable of each root: Value and holder of the lock
    parTask,     \* per task: position, child scope, held locks, error, writes
    parFinished, \* the tasks that returned, in the order they returned
    parErr       \* task whose error eg.Wait() returns, 0 for nil

parVars == <<parDef, parPc, parOrig, parClone, parShared, parHandle, parTask, parFinished, parErr>>

VARIABLES
    \* ---- anonymousStepDef.compile and the step it builds -------------------
    cmpDef,   \* the step definition of the document
    cmpPc,    \* "idle" | "parsed" | "compiled" | "failed" | "panicked" | "done"
    cmpStep,  \* what anonymousStepDef.compile returned
    cmpOut    \* (ret, next, err) of executing the compiled step

cmpVars == <<cmpDef, cmpPc, cmpStep, cmpOut>>

VARIABLES
    \* ---- SymbolTable.Set on a chain of scopes --------------------------------
    stChain,  \* the scopes from the current one (index 1) up to the root
    stPc,     \* "idle" | "ready" | "panicked"
    stOps,    \* number of Set calls made
    stLast    \* the last Set call: key, value, and the chain it was made on

stVars == <<stChain, stPc, stOps, stLast>>

VARIABLES
    \* ---- forStep.executeInSerial / forStepsWorkflow.execute ------------------
    forDef,    \* the for step: the value of `in` and the named steps of the body
    forChain,  \* <<child scope of the iteration, enclosing scope, standard library>>
    forPc,     \* "idle" | "start" | "next" | "body" | "done"
    forI,      \* number of elements of `in` taken so far
    forStep,   \* index in the body of the step to execute
    forTrace,  \* value of the loop variable at the start of each iteration run
    forOut     \* "nil" or the error executeInSerial returns

forVars == <<forDef, forChain, forPc, forI, forStep, forTrace, forOut>>

VARIABLES
    \* ---- the standard library scope across invocations -----------------------
    libMaps,   \* contents of the namespace maps defaults.Sys and defaults.HTTP
    libChain,  \* <<scope of the invocation, defaults.DefaultSymbolTable>>
    libPc,     \* "idle" | "running"
    libInv,    \* number of invocations started
    libSteps   \* assign steps executed by the current invocation

libVars == <<libMaps, libChain, libPc, libInv, libSteps>>

VARIABLES
    \* ---- WorkflowRoot.Execute and calls between workflows --------------------
    rootDoc,     \* the workflows of the document other than main, and main's parameter
    rootPc,      \* "idle" | "start" | "running" | "failed" | "done"
    rootStack,   \* workflows being invoked, the innermost last
    rootScopes,  \* per invocation: the workflow names bound in its scope
    rootLast     \* the last call of a workflow name: caller, callee, found

rootVars == <<rootDoc, rootPc, rootStack, rootScopes, rootLast>>

VARIABLES
    \* ---- types.NewFunction / reflectFunc.Call -------------------------------
    fnParams,  \* the declared parameters: "required" | "optional" | "default"
    fnArgs,    \* the positional arguments of the call
    fnPc,      \* "idle" | "declared" | "ready" | "called"
    fnMin,     \* reflectFunc.minimumArgs
    fnBound,   \* argValues: what each parameter was bound to
    fnErr      \* "" or the error Call returns

fnVars == <<fnParams, fnArgs, fnPc, fnMin, fnBound, fnErr>>

VARIABLES
    \* ---- list and map defaults of function parameters -----------------------
    dfFn,        \* the function: reflectFunc or rawFunction, default a list or a map
    dfPc,        \* "idle" | "ready"
    dfDeclared,  \* contents of the value held by Argument.Default
    dfReceived,  \* per call omitting the argument: the value it was handed
    dfSeen       \* per call: the contents of the value when it was handed over

dfVars == <<dfFn, dfPc, dfDeclared, dfReceived, dfSeen>>

VARIABLES exArch, exOp, exOperands, exPc, exLeft, exRight, exRet

exVars == <<exArch, exOp, exOperands, exPc, exLeft, exRight, exRet>>

VARIABLES psArch, psInput, psPc, psOperation, psRet

psVars == <<psArch, psInput, psPc, psOperation, psRet>>

VARIABLES
    \* ---- decodeJSONNumber ---------------------------------------------------
    numText,  \* the text of the json.Number, a sequence of characters
    numPc,    \* "idle" | "number" | "decoded"
    numRet    \* the (any, error) decodeJSONNumber returned

numVars == <<numText, numPc, numRet>>

VARIABLES
    \* ---- server.httpHandler and its reload goroutine -------------------------
    httpFile,    \* the workflow document on disk: [version, valid]
    httpRoot,    \* h.workflowRoot: the version of the stored WorkflowRoot, 0 before NewHTTPHandler
    httpLoaded,  \* the root the reload goroutine got from loader() and has not stored yet, 0 if none
    httpEx       \* h.executions: per execution [state, root, ran]

httpVars == <<httpFile, httpRoot, httpLoaded, httpEx>>

VARIABLES
    \* ---- events.create_callback_endpoint / events.await_callback -------------
    evKinds,     \* what each request to the endpoint is like
    evReqs,      \* per request [pc, resp]: where its handler is and what it answered
    evReceived,  \* callback.received
    evAwait,     \* await_callback: "idle" | "created" | "waiting" | "returned"
    evRet        \* what await_callback returned: [err, request]

evVars == <<evKinds, evReqs, evReceived, evAwait, evRet>>

VARIABLES
    \* ---- SymbolTable.KeysChan and the loop that reads it ---------------------
    kcChain,   \* the key sets of the scopes, the outermost parent first
    kcScope,   \* the scope keysChan is iterating; 0 before the goroutine starts
    kcLeft,    \* keys of that scope not sent yet
    kcClosed,  \* whether ch has been closed
    kcKeys,    \* what the range loop received: [scope, key]
    kcPc       \* executeInParallel: "idle" | "clone" | "range" | "share"

kcVars == <<kcChain, kcScope, kcLeft, kcClosed, kcKeys, kcPc>>

VARIABLES
    \* ---- exceptStep.execute and the scope it runs the handler in -------------
    hdChain,   \* the symbol table of the try step, the current scope first
    hdOrig,    \* that symbol table as the try step found it
    hdClone,   \* the scope ShallowClone made; its parent is hdChain[2]
    hdDef,     \* the handler: [as, steps], a step being one assignment
    hdStep,    \* index of the next step of the handler
    hdPc       \* "idle" | "caught" | "steps" | "done" | "panicked"

hdVars == <<hdChain, hdOrig, hdClone, hdDef, hdStep, hdPc>>

vars == <<wfVars, swVars, tryVars, parVars, cmpVars, stVars, forVars, libVars, rootVars, fnVars, dfVars, exVars, psVars, numVars, httpVars, evVars, kcVars, hdVars>>

(***************************************************************************)
(* Bounds                                                                  *)
(***************************************************************************)

MaxWfSteps == 2     \* named steps in a workflow document

MaxTrace == 4       \* step executions followed in one invocation

MaxConds == 2       \* entries of a switch list

MaxRetries == 3     \* largest max_retries of a retry policy in a document

MaxTasks == 2       \* elements of the `in` list of a parallel for

MaxAssigns == 2     \* assignments of one assign step

MaxScopes == 3      \* scopes of a symbol table chain

MaxSetCalls == 2    \* calls of SymbolTable.Set in one behaviour

MaxIn == 3          \* elements of the `in` list of a serial for

MaxBodySteps == 2   \* named steps of the body of a serial for

MaxLibSteps == 2    \* assign steps executed by one invocation

MaxInvocations == 3 \* invocations started through WorkflowRoot.Execute

MaxDepth == 3       \* nested invocations of workflows

MaxParams == 3      \* declared parameters of a function

MaxCalls == 3       \* calls of one function that omit the argument

MaxExecutions == 2  \* executions created through the HTTP facade

MaxDocuments == 2   \* times the workflow document on disk is rewritten

MaxRequests == 3    \* HTTP requests sent to one callback endpoint

MaxHandlerSteps == 2 \* steps of an except handler

(***************************************************************************)
(* Values shared by the components                                         *)
(***************************************************************************)

NoErr == [kind |-> "nil", at |-> "-"]

Min(a, b) == IF a < b THEN a ELSE b

(***************************************************************************)
(* Workflow.Execute and namedStep.Execute                                  *)
(***************************************************************************)
\* Names a step of the document can carry ("" is a legal JSON key).

NamedStepExecuteNoDefault(doc, i) ==
    IF doc[i].err
    THEN [ret |-> "nil", next |-> "", err |-> TRUE]
    ELSE [ret |-> doc[i].ret, next |-> doc[i].next, err |-> FALSE]

\* namedStep.Execute
NamedStepExecute(doc, i) ==
    LET
        \* workflowDef.compile: the fall-through successor of step i.
        WfDefaultNext(doc_, i_) ==
            IF i_ = Len(doc_) THEN "end" ELSE doc_[i_ + 1].name
    IN
            IF doc[i].err
            THEN [ret |-> "nil", next |-> "", err |-> TRUE]
            ELSE [ret  |-> doc[i].ret,
                  next |-> IF doc[i].next = "" THEN WfDefaultNext(doc, i) ELSE doc[i].next,
                  err  |-> FALSE]

\* Workflow.Execute, lines 123-134: the parameter check.
WorkflowExecuteParams ==
    /\ wfPc = "start"
    /\ IF wfParam \in {"bound", "optional", "none"}
       THEN /\ wfPc' = "loop"
            /\ wfErr' = wfErr
       ELSE \* a missing parameter, with or without default, ends the invocation
            /\ wfPc' = "done"
            /\ wfErr' = [kind |-> "missing param", at |-> "-"]
    /\ UNCHANGED <<wfDoc, wfParam, wfCur, wfTrace, wfRet>>

\* Workflow.Execute, lines 138-156: one iteration of the step loop.
WorkflowExecuteStep ==
    LET
        \* w.stepMap[name]: index of the step, 0 when the map has no such key.
        WfStepMap(doc, name) ==
            IF \E i \in 1..Len(doc) : doc[i].name = name
            THEN CHOOSE i \in 1..Len(doc) : doc[i].name = name
            ELSE 0
    IN
            /\ wfPc = "loop"
            /\ Len(wfTrace) < MaxTrace
            /\ LET r == NamedStepExecute(wfDoc, wfCur)
                   name == wfDoc[wfCur].name
               IN  /\ wfTrace' = Append(wfTrace, wfCur)
                   /\ IF r.err
                      THEN /\ wfPc' = "done"
                           /\ wfErr' = [kind |-> "step error", at |-> name]
                           /\ UNCHANGED <<wfCur, wfRet>>
                      ELSE IF r.next = "end"
                      THEN /\ wfPc' = "done"
                           /\ wfRet' = r.ret
                           /\ UNCHANGED <<wfCur, wfErr>>
                      ELSE IF r.next = ""
                      THEN /\ wfPc' = "done"
                           /\ wfErr' = [kind |-> "next step is not defined", at |-> name]
                           /\ UNCHANGED <<wfCur, wfRet>>
                      ELSE IF WfStepMap(wfDoc, r.next) = 0
                      THEN /\ wfPc' = "done"
                           /\ wfErr' = [kind |-> "not found", at |-> r.next]
                           /\ UNCHANGED <<wfCur, wfRet>>
                      ELSE /\ wfCur' = WfStepMap(wfDoc, r.next)
                           /\ UNCHANGED <<wfPc, wfRet, wfErr>>
            /\ UNCHANGED <<wfDoc, wfParam>>

(***************************************************************************)
(* newSwitchStep and switchStep.Execute                                    *)
(***************************************************************************)
\* The condition of a switch entry: an embedded expression, classified by
\* what it evaluates to ("T" true, "F" false, "N" a non-boolean value, "E" an
\* evaluation error), the bare string "true", or any other string.

SwNoOut == [ret |-> 0, next |-> "", err |-> "nil"]

\* c.step.Execute(ev) for the body of entry i (0: the default step).
SwBodyExecute(i, body) ==
    CASE body = "fall" -> [ret |-> 0, next |-> "", err |-> "nil"]
      [] body = "end"  -> [ret |-> 10 + i, next |-> "end", err |-> "nil"]
      [] body = "jump" -> [ret |-> 0, next |-> "x", err |-> "nil"]
      [] body = "err"  -> [ret |-> 0, next |-> "", err |-> "body"]

SwitchSelectedAnyValue(v) == v \in {"T", "N"}

\* switchStep.Execute, line 613: ok, isBool := ret.(bool); isBool && ok
SwitchSelected(v) == v = "T"

\* newSwitchStep
NewSwitchStep ==
    /\ swPc = "compile"
    /\ LET n == Len(swDoc)
           bad == \E i \in 1..n :
                      \/ swDoc[i].cond = "other"
                      \/ swDoc[i].cond = "bare true" /\ i # n
       IN  IF bad
           THEN /\ swPc' = "rejected"
                /\ UNCHANGED <<swConds, swDefault>>
           ELSE /\ swPc' = "loop"
                /\ IF swDoc[n].cond = "bare true"
                   THEN /\ swConds' = SubSeq(swDoc, 1, n - 1)
                        /\ swDefault' = swDoc[n].body
                   ELSE /\ swConds' = swDoc
                        /\ swDefault' = "none"
    /\ UNCHANGED <<swDoc, swI, swEvaluated, swRan, swOut>>

\* switchStep.Execute, lines 607-621: one iteration of the loop over conditions.
SwitchExecuteCondition ==
    /\ swPc = "loop"
    /\ swI <= Len(swConds)
    /\ swEvaluated' = Append(swEvaluated, swI)
    /\ LET v == swConds[swI].cond
       IN  IF v = "E"
           THEN /\ swPc' = "done"
                /\ swOut' = [ret |-> 0, next |-> "", err |-> "condition"]
                /\ UNCHANGED <<swI, swRan>>
           ELSE IF SwitchSelected(v)
           THEN /\ swPc' = "done"
                /\ swRan' = Append(swRan, swI)
                /\ swOut' = SwBodyExecute(swI, swConds[swI].body)
                /\ UNCHANGED swI
           ELSE /\ swI' = swI + 1
                /\ UNCHANGED <<swPc, swRan, swOut>>
    /\ UNCHANGED <<swDoc, swConds, swDefault>>

\* switchStep.Execute, lines 623-632: no condition was selected.
SwitchExecuteDefault ==
    /\ swPc = "loop"
    /\ swI > Len(swConds)
    /\ swPc' = "done"
    /\ IF swDefault # "none"
       THEN /\ swRan' = Append(swRan, 0)
            /\ swOut' = SwBodyExecute(0, swDefault)
       ELSE /\ swOut' = SwNoOut
            /\ UNCHANGED swRan
    /\ UNCHANGED <<swDoc, swConds, swDefault, swI, swEvaluated>>

(***************************************************************************)
(* tryStep.Execute, tryStep.execute, exceptStep.execute                    *)
(***************************************************************************)
\* time.Second, with durations counted in microseconds.

Second == 1000000

\* The `backoff` of a retry policy; present = FALSE is the nil pointer.
TryNoBackoff == [present |-> FALSE, initial_delay |-> 0, max_delay |-> 0, multiplier |-> 0]

TryNoOut == [ret |-> 0, next |-> "", err |-> <<>>]

ErrorsAsAnyError(err) == Len(err) > 0

\* errors.As(err, &exception): some layer of the chain is an Exception.
ErrorsAs(err) ==
    LET
        \* An error is its cause chain, outermost layer first; a layer is a plain
        \* host error or an Exception.
        TryExceptions == {"excA", "excB"}
    IN
        \E i \in 1..Len(err) : err[i] \in TryExceptions

\* retryPolicyDef.compile: the policy with its defaults.
RetryPolicyCompile(def) ==
    LET
        \* time.Duration(x) of a float64 x >= 0: the fraction is dropped.
        DurationOfFloat(q) == q \div 4

        \* retryBackoffPolicyDef.compile
        RetryBackoffPolicyCompile(b) ==
            [initialDelay |-> Second * DurationOfFloat(b.initial_delay),
             maxDelay     |-> Second * DurationOfFloat(b.max_delay),
             multiplier   |-> b.multiplier]
    IN
            [maxRetries |-> IF def.max_retries = 0 THEN 5 ELSE def.max_retries,
             backoff    |-> IF ~def.backoff.present
                            THEN [initialDelay |-> 1 * Second, maxDelay |-> 60 * Second, multiplier |-> 5]
                            ELSE RetryBackoffPolicyCompile(def.backoff),
             predicate  |-> def.predicate]

\* The nil *retryStatus of a try step without retry policy.
TryNoRetry ==
    [present |-> FALSE, restRetries |-> 0, delay |-> 0,
     policy |-> [maxRetries |-> 0, predicate |-> "always",
                 backoff |-> [initialDelay |-> 0, maxDelay |-> 0, multiplier |-> 0]]]

RetriesRemainInclusive(retry) == retry.present /\ retry.restRetries >= 0

\* tryStep.execute, line 833: retry != nil && retry.restRetries > 0
RetriesRemain(retry) == retry.present /\ retry.restRetries > 0

NotRetriedAlwaysPropagates(hasExcept) == "propagate"

\* tryStep.execute, lines 854-858: what happens to an exception that is not retried.
NotRetried(hasExcept) == IF hasExcept THEN "except" ELSE "propagate"

\* tryStep.Execute, lines 800-815
TryStepExecute ==
    /\ tryPc = "start"
    /\ CASE tryDef.retry = "none" ->
              /\ tryPc' = "body"
              /\ UNCHANGED <<tryRetry, tryOut>>
         [] tryDef.retry = "invalid" ->
              /\ tryPc' = "done"
              /\ tryOut' = [ret |-> 0, next |-> "", err |-> <<"plain">>]
              /\ UNCHANGED tryRetry
         [] tryDef.retry = "policy" ->
              LET policy == RetryPolicyCompile(tryDef)
              IN  /\ tryPc' = "body"
                  /\ tryRetry' = [present     |-> TRUE,
                                  restRetries |-> policy.maxRetries,
                                  delay       |-> policy.backoff.initialDelay,
                                  policy      |-> policy]
                  /\ UNCHANGED tryOut
    /\ UNCHANGED <<tryDef, tryRuns, tryErr, tryPreds, trySleeps, tryHandled>>

\* tryStep.execute, lines 824-833: run the body and classify its error.
TryStepExecuteBody ==
    LET
        TryErrors == {<<"excA">>, <<"excB">>, <<"plain", "excA">>, <<"plain">>, <<"plain", "plain">>}

        TryOkOutcomes == [ret : {1}, next : {"", "end"}, err : {<<>>}]

        TryBodyOutcomes == TryOkOutcomes \cup [ret : {0}, next : {""}, err : TryErrors]
    IN
            /\ tryPc = "body"
            /\ \E o \in TryBodyOutcomes :
                  /\ tryRuns' = Append(tryRuns, o)
                  /\ tryErr' = o.err
                  /\ IF o.err = <<>>
                     THEN /\ tryPc' = "done"
                          /\ tryOut' = o
                     ELSE IF ~ErrorsAs(o.err)
                     THEN /\ tryPc' = "done"
                          /\ tryOut' = [ret |-> 0, next |-> "", err |-> o.err]
                     ELSE /\ tryPc' = IF RetriesRemain(tryRetry) THEN "predicate" ELSE "refused"
                          /\ UNCHANGED tryOut
            /\ UNCHANGED <<tryDef, tryRetry, tryPreds, trySleeps, tryHandled>>

\* tryStep.execute, lines 834-844: ask the predicate.
TryStepPredicate ==
    /\ tryPc = "predicate"
    /\ tryPreds' = tryPreds + 1
    /\ \E result \in BOOLEAN :
          /\ tryRetry.policy.predicate = "always" => result
          /\ tryRetry.policy.predicate = "never" => ~result
          /\ tryPc' = IF result THEN "backoff" ELSE "refused"
    /\ UNCHANGED <<tryDef, tryRetry, tryRuns, tryErr, trySleeps, tryHandled, tryOut>>

\* tryStep.execute, lines 845-851: sleep, grow the delay, recurse.
TryStepBackoff ==
    LET
        \* time.Duration(float64(d) * m) for a duration d and a float64 m.
        DurationTimesFloat(d, q) == (d * q) \div 4
    IN
            /\ tryPc = "backoff"
            /\ trySleeps' = Append(trySleeps, tryRetry.delay)
            /\ LET grown == DurationTimesFloat(tryRetry.delay, tryRetry.policy.backoff.multiplier)
                   maxDelay == tryRetry.policy.backoff.maxDelay
               IN  tryRetry' = [tryRetry EXCEPT
                                   !.delay = IF grown > maxDelay THEN maxDelay ELSE grown,
                                   !.restRetries = @ - 1]
            /\ tryPc' = "body"
            /\ UNCHANGED <<tryDef, tryRuns, tryErr, tryPreds, tryHandled, tryOut>>

\* tryStep.execute, lines 854-858, and exceptStep.execute.
TryStepNotRetried ==
    LET
        TryHandlerOutcomes ==
            [ret : {2}, next : {"", "end"}, err : {<<>>}] \cup [ret : {0}, next : {""}, err : {<<"plain", "excB">>}]
    IN
            /\ tryPc = "refused"
            /\ tryPc' = "done"
            /\ IF NotRetried(tryDef.except) = "propagate"
               THEN /\ tryOut' = [ret |-> 0, next |-> "", err |-> tryErr]
                    /\ UNCHANGED tryHandled
               ELSE \E h \in TryHandlerOutcomes :
                       /\ tryHandled' = Append(tryHandled, h)
                       /\ tryOut' = h
            /\ UNCHANGED <<tryDef, tryRetry, tryRuns, tryErr, tryPreds, trySleeps>>

(***************************************************************************)
(* forStep.executeInParallel, from the `shared` loop on, and the assign    *)
(* and call steps executed by its tasks                                    *)
(***************************************************************************)
\* Root symbols a task writes: two variables of the invocation scope and a
\* name no scope defines.

ParRoots == {"counter", "other", "fresh"}

ParDefinedRoots == {"counter", "other"}

\* A write target is a root symbol or the field `other.x`.  The variables of
\* the model hold integers, so fieldReference.ResolveVariable fails on the
\* field with "unexpected context type".
ParFieldTarget == "other.x"

\* A binding of a Symbols map: no key, a plain value, or a *SharedVariable.
ParUndef == [kind |-> "undef", v |-> 0]

ParValue(n) == [kind |-> "value", v |-> n]

ParHandleRef == [kind |-> "handle", v |-> 0]

\* Value a called function returns.
ParCallResult == 7

ParTasks == 1..MaxTasks

ParIdleTask ==
    [pc |-> "idle", k |-> 1, held |-> <<>>, pending |-> "fresh", err |-> "nil",
     local |-> [r \in ParRoots |-> ParUndef], writes |-> <<>>]

\* SymbolTable.Get on the scope of a task: the child scope, then the clone.
\* (No root of the model is a key of the read-only standard library scope.)
SymbolTableGet(local, clone, r) ==
    IF local[r].kind # "undef" THEN local[r] ELSE clone[r]

\* SymbolTable.Set on the scope of a task: rebind in the nearest scope that
\* has the key, else create the key in the child scope.
SymbolTableSet(local, clone, r, e) ==
    IF local[r].kind # "undef" THEN [local |-> [local EXCEPT ![r] = e], clone |-> clone]
    ELSE IF clone[r].kind # "undef" THEN [local |-> local, clone |-> [clone EXCEPT ![r] = e]]
    ELSE [local |-> [local EXCEPT ![r] = e], clone |-> clone]

\* assignStep.Execute, line 267: _, inherited := inheritedVariables.Shared[rootSym]
AssignRejected(shared, r) == shared[r] # "absent"

ErrgroupWaitFirstError(tasks, n) ==
    \/ \A t \in 1..n : tasks[t].pc \in {"done", "failed"}
    \/ \E t \in 1..n : tasks[t].pc = "failed"

\* errgroup.Group.Wait: every goroutine started with Go has returned.
ErrgroupWait(tasks, n) == \A t \in 1..n : tasks[t].pc \in {"done", "failed"}

\* Where a task goes when its lock acquisition loop has handled expression k.
ParAfterLock(def, k) ==
    IF k < Len(def.body.targets) THEN "lock" ELSE def.body.kind

\* executeInParallel, lines 1057-1074: wrap the shared variables in handles.
ExecuteInParallelShare ==
    LET
        ParSeqToSet(q) == { q[i] : i \in 1..Len(q) }
    IN
            /\ parPc = "share"
            /\ LET sh == ParSeqToSet(parDef.shared)
               IN  /\ parClone' = [r \in ParRoots |-> IF r \in sh THEN ParHandleRef ELSE parClone[r]]
                   /\ parHandle' = [r \in ParRoots |->
                                        IF r \in sh THEN [value |-> parClone[r], lockedBy |-> 0]
                                        ELSE parHandle[r]]
                   /\ parShared' = [r \in ParRoots |->
                                        IF r \in sh THEN "true"
                                        ELSE IF parClone[r].kind # "undef" THEN "false" ELSE "absent"]
            /\ parPc' = "spawn"
            /\ UNCHANGED <<parDef, parOrig, parTask, parFinished, parErr>>

\* executeInParallel, lines 1076-1098: one goroutine per element of `in`.
ExecuteInParallelGo ==
    /\ parPc = "spawn"
    /\ parTask' = [t \in ParTasks |->
                      IF t <= parDef.n
                      THEN [ParIdleTask EXCEPT
                               !.pc = IF parDef.body.targets = <<>> THEN "call" ELSE "lock"]
                      ELSE ParIdleTask]
    /\ parPc' = "wait"
    /\ UNCHANGED <<parDef, parOrig, parClone, parShared, parHandle, parFinished, parErr>>

\* LockSharedVariablesIfNeeded, lines 679-696: resolve expression k and look
\* up the handle of its root when the root is shared.  When the expression
\* does not resolve, the function returns the error and the step returns it
\* to the goroutine, with no unlock function to call.
LockSharedVariablesLookup(t) ==
    /\ parPc = "wait"
    /\ parTask[t].pc = "lock"
    /\ LET r == parDef.body.targets[parTask[t].k]
       IN  IF r = ParFieldTarget
           THEN /\ parTask' = [parTask EXCEPT ![t].pc = "failed",
                                              ![t].err = "LockSharedVariablesIfNeeded"]
                /\ parFinished' = Append(parFinished, t)
                /\ UNCHANGED parPc
           ELSE IF parShared[r] # "true"
           THEN /\ parTask' = [parTask EXCEPT ![t].pc = ParAfterLock(parDef, parTask[t].k),
                                              ![t].k = IF @ < Len(parDef.body.targets) THEN @ + 1 ELSE 1]
                /\ UNCHANGED <<parPc, parFinished>>
           ELSE IF SymbolTableGet(parTask[t].local, parClone, r).kind # "handle"
           THEN \* v.(*types.SharedVariable) panics in the goroutine
                /\ parTask' = [parTask EXCEPT ![t].pc = "panicked"]
                /\ parPc' = "crashed"
                /\ UNCHANGED parFinished
           ELSE /\ parTask' = [parTask EXCEPT ![t].pc = "acquire", ![t].pending = r]
                /\ UNCHANGED <<parPc, parFinished>>
    /\ UNCHANGED <<parDef, parOrig, parClone, parShared, parHandle, parErr>>

\* LockSharedVariablesIfNeeded, lines 697-703: take the lock and swap the
\* live value into the symbol table.
LockSharedVariablesAcquire(t) ==
    /\ parPc = "wait"
    /\ parTask[t].pc = "acquire"
    /\ LET r == parTask[t].pending
           w == SymbolTableSet(parTask[t].local, parClone, r, parHandle[r].value)
       IN  /\ parHandle[r].lockedBy = 0
           /\ parHandle' = [parHandle EXCEPT ![r].lockedBy = t]
           /\ parClone' = w.clone
           /\ parTask' = [parTask EXCEPT ![t].pc = ParAfterLock(parDef, parTask[t].k),
                                         ![t].k = IF @ < Len(parDef.body.targets) THEN @ + 1 ELSE 1,
                                         ![t].held = Append(@, r),
                                         ![t].local = w.local]
    /\ UNCHANGED <<parDef, parPc, parOrig, parShared, parFinished, parErr>>

\* assignStep.Execute, lines 256-277: one assignment of the block.
AssignStepExecute(t) ==
    /\ parPc = "wait"
    /\ parTask[t].pc = "assign"
    /\ LET k == parTask[t].k
           r == parDef.body.targets[k]
           cur == SymbolTableGet(parTask[t].local, parClone, r)
           new == IF r \in ParDefinedRoots THEN ParValue(cur.v + 1) ELSE ParValue(1)
           w == SymbolTableSet(parTask[t].local, parClone, r, new)
       IN  IF AssignRejected(parShared, r)
           THEN /\ parTask' = [parTask EXCEPT
                                  ![t].pc = "unlock",
                                  ![t].err = "cannot assign to non-shared variable",
                                  ![t].writes = Append(@, [root |-> r, via |-> "assign",
                                                           rejected |-> TRUE, changed |-> FALSE])]
                /\ UNCHANGED parClone
           ELSE /\ parTask' = [parTask EXCEPT
                                  ![t].pc = IF k < Len(parDef.body.targets) THEN "assign" ELSE "unlock",
                                  ![t].k = IF k < Len(parDef.body.targets) THEN k + 1 ELSE k,
                                  ![t].local = w.local,
                                  ![t].writes = Append(@, [root |-> r, via |-> "assign",
                                                           rejected |-> FALSE, changed |-> TRUE])]
                /\ parClone' = w.clone
    /\ UNCHANGED <<parDef, parPc, parOrig, parShared, parHandle, parFinished, parErr>>

\* callStep.Execute, lines 492-548: call the function and store its result.
CallStepExecute(t) ==
    /\ parPc = "wait"
    /\ parTask[t].pc = "call"
    /\ \E ok \in BOOLEAN :
          IF ~ok
          THEN /\ parTask' = [parTask EXCEPT ![t].pc = "unlock", ![t].err = "call"]
               /\ UNCHANGED parClone
          ELSE IF parDef.body.targets = <<>>
          THEN /\ parTask' = [parTask EXCEPT ![t].pc = "unlock"]
               /\ UNCHANGED parClone
          ELSE LET r == parDef.body.targets[1]
                   w == SymbolTableSet(parTask[t].local, parClone, r, ParValue(ParCallResult))
               IN  /\ parTask' = [parTask EXCEPT
                                      ![t].pc = "unlock",
                                      ![t].local = w.local,
                                      ![t].writes = Append(@, [root |-> r, via |-> "call",
                                                               rejected |-> FALSE, changed |-> TRUE])]
                   /\ parClone' = w.clone
    /\ UNCHANGED <<parDef, parPc, parOrig, parShared, parHandle, parFinished, parErr>>

\* The deferred unlock: swap the value back into the handle, rebind the
\* handle and release the lock, last acquired first; then the goroutine
\* returns and errgroup records its error.
UnlockAndReturn(t) ==
    /\ parPc = "wait"
    /\ parTask[t].pc = "unlock"
    /\ IF parTask[t].held # <<>>
       THEN LET h == parTask[t].held
                r == h[Len(h)]
                cur == SymbolTableGet(parTask[t].local, parClone, r)
                w == SymbolTableSet(parTask[t].local, parClone, r, ParHandleRef)
            IN  /\ parHandle' = [parHandle EXCEPT ![r] = [value |-> cur, lockedBy |-> 0]]
                /\ parClone' = w.clone
                /\ parTask' = [parTask EXCEPT ![t].held = SubSeq(h, 1, Len(h) - 1),
                                              ![t].local = w.local]
                /\ UNCHANGED parFinished
       ELSE /\ parTask' = [parTask EXCEPT ![t].pc = IF parTask[t].err = "nil" THEN "done" ELSE "failed"]
            /\ parFinished' = Append(parFinished, t)
            /\ UNCHANGED <<parHandle, parClone>>
    /\ UNCHANGED <<parDef, parPc, parOrig, parShared, parErr>>

ConcurrentMapAccess ==
    LET
        \* The Symbols map of the clone is read and written by the goroutines with
        \* no lock of its own: a write overlapping another goroutine's access is a
        \* data race, which the Go runtime may end with "concurrent map read and map
        \* write" or let pass (the other actions).
        ParWritesClone(t) ==
            \/ parTask[t].pc = "acquire"
            \/ parTask[t].pc = "unlock" /\ parTask[t].held # <<>>
            \/ /\ parTask[t].pc = "call"
               /\ parDef.body.targets # <<>>
               /\ parClone[parDef.body.targets[1]].kind # "undef"

        ParReadsClone(t) == parTask[t].pc \in {"lock", "acquire", "assign", "call", "unlock"}
    IN
            /\ parPc = "wait"
            /\ \E t, u \in 1..parDef.n : t # u /\ ParWritesClone(t) /\ ParReadsClone(u)
            /\ parPc' = "crashed"
            /\ UNCHANGED <<parDef, parOrig, parClone, parShared, parHandle, parTask, parFinished, parErr>>

\* executeInParallel, line 1099: eg.Wait() and return.
ExecuteInParallelWait ==
    /\ parPc = "wait"
    /\ ErrgroupWait(parTask, parDef.n)
    /\ parPc' = "returned"
    /\ parErr' = IF \E i \in 1..Len(parFinished) : parTask[parFinished[i]].pc = "failed"
                 THEN parFinished[CHOOSE i \in 1..Len(parFinished) :
                                     /\ parTask[parFinished[i]].pc = "failed"
                                     /\ \A j \in 1..(i - 1) : parTask[parFinished[j]].pc # "failed"]
                 ELSE 0
    /\ UNCHANGED <<parDef, parOrig, parClone, parShared, parHandle, parTask, parFinished>>

(***************************************************************************)
(* anonymousStepDef.compile, newTryStep, newExceptStep,                    *)
(* newAnonymousStepsStep, and the execution of the step they build         *)
(***************************************************************************)
\* Keys of a step definition.  "bogus" stands for a key that is not in
\* firstLevelFieldsOfStep; the documents of the model carry no call, switch,
\* assign, for or next.

CmpFirstLevelFields == {"try", "retry", "except", "parallel", "steps", "raise", "return"}

CmpNoExcept == [as |-> "", steps |-> "absent"]

CmpNoParallel ==
    [exception_policy |-> "absent", shared |-> "absent", for |-> FALSE, branches |-> FALSE]

\* The payload of every raise of the model is {"tags": ["MyErr"]}.
CmpFirstTag == "MyErr"

CmpLeafDef(fields) ==
    [fields |-> fields, try |-> {}, retry |-> "policy", except |-> CmpNoExcept,
     parallel |-> CmpNoParallel, steps |-> "absent"]

CmpFail(msg) ==
    [ok |-> FALSE, err |-> msg, kind |-> "none", body |-> "none", retry |-> FALSE, except |-> "none"]

CmpStepOf(kind, body, retry, except) ==
    [ok |-> TRUE, err |-> "", kind |-> kind, body |-> body, retry |-> retry, except |-> except]

CmpNoOut == [kind |-> "none", value |-> "", next |-> ""]

\* json.Unmarshal(data, v): fails when v is not a pointer, or on no input.
JsonUnmarshal(data, pointer) == pointer /\ data # "absent"

\* newAnonymousStepsStep: json.Unmarshal(def["steps"], stepsDef) is handed
\* the slice itself; then each element is compiled as an anonymous step.
NewAnonymousStepsStep(steps) ==
    IF ~JsonUnmarshal(steps, FALSE) THEN CmpFail("invalid steps")
    ELSE IF steps = "named return" THEN CmpFail("invalid steps[0]: no effective fields in the step")
    ELSE CmpStepOf("steps", IF steps = "empty" THEN "none" ELSE "return", FALSE, "none")

RECURSIVE AnonymousStepDefCompile(_)

\* newTryStep
NewTryStep(def) ==
    LET
        \* newExceptStep
        NewExceptStep(except) ==
            IF except.as = "" THEN CmpFail("as: required")
            ELSE IF except.as # "e" THEN CmpFail("as: not a symbol")
            ELSE LET steps == NewAnonymousStepsStep(except.steps)
                 IN  IF ~steps.ok THEN CmpFail("steps") ELSE steps
    IN
            LET realStep == AnonymousStepDefCompile(CmpLeafDef(def.try))
                except == NewExceptStep(def.except)
            IN  IF ~realStep.ok THEN CmpFail(IF realStep.err = "panic" THEN "panic" ELSE "invalid try")
                ELSE IF "retry" \in def.fields /\ def.retry = "number" THEN CmpFail("invalid retry")
                ELSE IF "except" \in def.fields /\ ~except.ok THEN CmpFail("invalid except")
                ELSE CmpStepOf("try", realStep.kind, "retry" \in def.fields,
                               IF "except" \in def.fields THEN except.body ELSE "absent")

\* anonymousStepDef.compile, for a definition without `next`
AnonymousStepDefCompile(def) ==
    LET
        \* newParallelStep; newForStep accepts the `for` of the model.
        NewParallelStep(parallelDef) ==
            IF parallelDef.exception_policy = "unhandled" THEN CmpFail("parallel: unsupported exception_policy")
            ELSE IF ~JsonUnmarshal(parallelDef.shared, TRUE) THEN CmpFail("parallel: invalid shared")
            ELSE IF parallelDef.for /\ parallelDef.branches
                 THEN CmpFail("parallel: only specify for or branches either")
            ELSE IF parallelDef.for THEN CmpStepOf("for", "none", FALSE, "absent")
            ELSE IF parallelDef.branches THEN CmpFail("panic")
            ELSE CmpFail("parallel: must specify for or branches")
    IN
            LET found == def.fields \cap CmpFirstLevelFields
            IN  IF found = {} THEN CmpFail("no effective fields in the step")
                ELSE IF found # def.fields THEN CmpFail("not effective fields in the step")
                ELSE IF {"return", "raise"} \subseteq found THEN CmpFail("conflict return and raise")
                ELSE IF "try" \in found /\ ("retry" \in found \/ "except" \in found) THEN NewTryStep(def)
                ELSE IF "parallel" \in found THEN NewParallelStep(def.parallel)
                ELSE IF "steps" \in found
                     THEN IF Cardinality(found) # 1 THEN CmpFail("panic")
                          ELSE NewAnonymousStepsStep(def.steps)
                ELSE IF "raise" \in found
                     THEN IF Cardinality(found) # 1 THEN CmpFail("panic")
                          ELSE CmpStepOf("raise", "none", FALSE, "absent")
                ELSE IF "return" \in found
                     THEN IF Cardinality(found) # 1 THEN CmpFail("panic")
                          ELSE CmpStepOf("return", "none", FALSE, "absent")
                ELSE CmpFail("invalid step")

\* workflowStepDef.compile
WorkflowStepDefCompile ==
    /\ cmpPc = "parsed"
    /\ LET step == AnonymousStepDefCompile(cmpDef)
       IN  /\ cmpStep' = step
           /\ cmpPc' = IF step.ok THEN "compiled"
                       ELSE IF step.err = "panic" THEN "panicked" ELSE "failed"
    /\ UNCHANGED <<cmpDef, cmpOut>>

\* Execute of the compiled step
CompiledStepExecute ==
    LET
        \* returnStep.Execute and raiseStep.Execute.  A return outside a handler
        \* returns a constant; the return of a handler is ${e.tags[0]}.
        CmpLeafExecute(kind, handler) ==
            CASE kind = "return" -> [kind |-> "ret", value |-> IF handler THEN CmpFirstTag ELSE "v",
                                     next |-> "end"]
              [] kind = "raise" -> [kind |-> "exc", value |-> CmpFirstTag, next |-> ""]
              [] OTHER -> [kind |-> "ret", value |-> "nil", next |-> ""]

        \* tryStep.execute followed by exceptStep.execute: the body is deterministic,
        \* so retrying it ends with the same exception.
        CmpStepExecute(step) ==
            IF step.kind # "try" THEN CmpLeafExecute(step.body, FALSE)
            ELSE LET body == CmpLeafExecute(step.body, FALSE)
                 IN  IF body.kind = "exc" /\ step.except # "absent"
                     THEN CmpLeafExecute(step.except, TRUE)
                     ELSE body
    IN
            /\ cmpPc = "compiled"
            /\ cmpOut' = CmpStepExecute(IF cmpStep.kind = "try" THEN cmpStep
                                        ELSE [cmpStep EXCEPT !.body = cmpStep.kind])
            /\ cmpPc' = "done"
            /\ UNCHANGED <<cmpDef, cmpStep>>

(***************************************************************************)
(* types.SymbolTable: Get, Set and set on a chain of scopes                *)
(***************************************************************************)
\* A scope is [syms, ro]: syms maps every key to its value, StAbsent for a
\* key the Symbols map does not hold.

StAbsent == -1

StKeys == {"k", "j"}

StValues == {1, 2}

StScopes == [syms : [StKeys -> StValues \cup {StAbsent}], ro : BOOLEAN]

StNoCall == [key |-> "k", value |-> StAbsent, chain |-> <<>>]

ChainGet(chain, k) ==
    LET
        RECURSIVE ChainGetFrom(_, _, _)
        \* SymbolTable.Get called on scope i of the chain
        ChainGetFrom(chain_, i, k_) ==
            IF chain_[i].syms[k_] # StAbsent THEN chain_[i].syms[k_]
            ELSE IF i < Len(chain_) THEN ChainGetFrom(chain_, i + 1, k_)
            ELSE StAbsent
    IN
        ChainGetFrom(chain, 1, k)

RECURSIVE ChainRebindAnyScope(_, _, _, _)
ChainRebindAnyScope(chain, i, k, v) ==
    IF chain[i].syms[k] # StAbsent
    THEN [updated |-> TRUE, chain |-> [chain EXCEPT ![i].syms[k] = v]]
    ELSE IF i < Len(chain) THEN ChainRebindAnyScope(chain, i + 1, k, v)
    ELSE [updated |-> FALSE, chain |-> chain]

RECURSIVE ChainRebind(_, _, _, _)
\* SymbolTable.set called on scope i: rebind in the nearest scope that is
\* not read-only and holds the key.
ChainRebind(chain, i, k, v) ==
    IF ~chain[i].ro /\ chain[i].syms[k] # StAbsent
    THEN [updated |-> TRUE, chain |-> [chain EXCEPT ![i].syms[k] = v]]
    ELSE IF i < Len(chain) THEN ChainRebind(chain, i + 1, k, v)
    ELSE [updated |-> FALSE, chain |-> chain]

ChainSetInCurrentScope(chain, k, v) ==
    IF chain[1].ro THEN [panicked |-> TRUE, chain |-> chain]
    ELSE [panicked |-> FALSE, chain |-> [chain EXCEPT ![1].syms[k] = v]]

\* SymbolTable.Set called on the current scope
ChainSet(chain, k, v) ==
    LET r == ChainRebind(chain, 1, k, v)
    IN  IF r.updated THEN [panicked |-> FALSE, chain |-> r.chain]
        ELSE IF chain[1].ro THEN [panicked |-> TRUE, chain |-> chain]
        ELSE [panicked |-> FALSE, chain |-> [chain EXCEPT ![1].syms[k] = v]]

\* One call of Set(k, v) on the current scope.
SymbolTableSetCall ==
    /\ stPc = "ready"
    /\ stOps < MaxSetCalls
    /\ \E k \in StKeys, v \in StValues :
          LET r == ChainSet(stChain, k, v)
          IN  /\ stChain' = r.chain
              /\ stPc' = IF r.panicked THEN "panicked" ELSE "ready"
              /\ stLast' = [key |-> k, value |-> v, chain |-> stChain]
    /\ stOps' = stOps + 1

(***************************************************************************)
(* forStep.executeInSerial and forStepsWorkflow.execute                    *)
(***************************************************************************)
\* Symbols of the model: `sum` is defined in the enclosing scope, `i` is the
\* loop variable (for.value), `tmp` is defined nowhere before the loop.

ForKeys == {"sum", "i", "tmp"}

ForReturnStep == [assign |-> "none", next |-> "end"]

ForEmptyScope == [syms |-> [k \in ForKeys |-> StAbsent], ro |-> FALSE]

\* executeInSerial, lines 998-1009: evaluate `in`.
ForEvaluateIn ==
    /\ forPc = "start"
    /\ IF forDef.isList
       THEN forPc' = "next" /\ UNCHANGED forOut
       ELSE forPc' = "done" /\ forOut' = "TypeError: in: must be an array"
    /\ UNCHANGED <<forDef, forChain, forI, forStep, forTrace>>

\* executeInSerial, lines 1010-1016: the next element, bound in a new child
\* scope; or the end of the list.
ForNextElement ==
    LET
        ForChildScope(v) == [syms |-> [k \in ForKeys |-> IF k = "i" THEN v ELSE StAbsent], ro |-> FALSE]
    IN
            /\ forPc = "next"
            /\ IF forI < Len(forDef.in)
               THEN /\ forI' = forI + 1
                    /\ forChain' = [forChain EXCEPT ![1] = ForChildScope(forDef.in[forI + 1])]
                    /\ forTrace' = Append(forTrace, forDef.in[forI + 1])
                    /\ forStep' = 1
                    /\ forPc' = "body"
               ELSE /\ forPc' = "done"
                    /\ forChain' = [forChain EXCEPT ![1] = ForEmptyScope]
                    /\ UNCHANGED <<forI, forTrace, forStep>>
            /\ UNCHANGED <<forDef, forOut>>

\* forStepsWorkflow.execute, one turn of its loop: execute the step, then
\* act on the next-step name; executeInSerial acts on the loop control.
ForStepsWorkflowExecute ==
    LET
        \* Value of the right-hand side of the assignment of a body step.
        ForAssignValue(chain, a) ==
            CASE a = "sum" -> ChainGet(chain, "sum") + ChainGet(chain, "i")
              [] a = "tmp" -> ChainGet(chain, "i")
              [] a = "i" -> ChainGet(chain, "i") + 1

        \* namedStep.Execute inside the body: the successor in document order, or
        \* "continue" for the last step, replaces an empty next.
        ForStepNext(body, s) ==
            IF body[s].next # "" THEN body[s].next
            ELSE IF s < Len(body) THEN "step" ELSE "continue"
    IN
            /\ forPc = "body"
            /\ LET a == forDef.body[forStep].assign
                   r == IF forDef.body[forStep] = ForReturnStep THEN [chain |-> forChain]
                        ELSE ChainSet(forChain, a, ForAssignValue(forChain, a))
                   n == ForStepNext(forDef.body, forStep)
               IN  /\ forChain' = IF n \in {"step", "continue"} THEN r.chain
                                  ELSE [r.chain EXCEPT ![1] = ForEmptyScope]
                   /\ CASE n = "step" -> /\ forStep' = forStep + 1
                                         /\ UNCHANGED <<forPc, forOut>>
                        [] n = "continue" -> /\ forPc' = "next"
                                             /\ UNCHANGED <<forStep, forOut>>
                        [] n = "break" -> /\ forPc' = "done"
                                          /\ UNCHANGED <<forStep, forOut>>
                        [] OTHER -> /\ forPc' = "done"
                                    /\ forOut' = "end: not found"
                                    /\ UNCHANGED forStep
            /\ UNCHANGED <<forDef, forI, forTrace>>

(***************************************************************************)
(* defaults.DefaultSymbolTable and the assign steps of invocations         *)
(***************************************************************************)
\* Values of symbols: the int an assign step writes, and the two namespace
\* maps (Go maps, shared by reference by every scope that holds them).

LibSysMap == 10

LibHttpMap == 11

LibMapRefs == {LibSysMap, LibHttpMap}

LibKeys == {"sys", "http", "v"}

LibFields == {"now", "get"}

\* The scope WorkflowRoot.Execute creates for an invocation.
LibInvocationScope == [syms |-> [k \in LibKeys |-> StAbsent], ro |-> FALSE]

\* fieldReference.ResolveValue / symbolReference.ResolveValue of root.field:
\* "fn" for the library function, "int" for an assigned int, "error" when
\* the root is not found or is not a map.
LibResolveValue(maps, chain, root, field) ==
    LET context == ChainGet(chain, root)
    IN  IF context \in LibMapRefs THEN maps[context][field] ELSE "error"

\* assignStep.Execute with one assignment `target: 1`:
\* symbolReference.ResolveVariable sets through SymbolTable.Set,
\* fieldReference.ResolveVariable sets the key of the context map.
LibAssignStepExecute ==
    LET
        LibInt == 1

        \* Targets of an assign step: a bare symbol, or a field of a symbol.
        LibTargets == [root : LibKeys, field : LibFields \cup {""}]
    IN
            /\ libPc = "running"
            /\ libSteps < MaxLibSteps
            /\ \E target \in LibTargets :
                  LET context == ChainGet(libChain, target.root)
                  IN  IF target.field = ""
                      THEN /\ libChain' = ChainSet(libChain, target.root, LibInt).chain
                           /\ UNCHANGED libMaps
                      ELSE IF context \in LibMapRefs
                      THEN /\ libMaps' = [libMaps EXCEPT ![context][target.field] = "int"]
                           /\ UNCHANGED libChain
                      ELSE UNCHANGED <<libMaps, libChain>>
            /\ libSteps' = libSteps + 1
            /\ UNCHANGED <<libPc, libInv>>

\* WorkflowRoot.Execute: a later invocation gets a new scope whose parent is
\* the same DefaultSymbolTable.
LibWorkflowRootExecute ==
    /\ libPc = "running"
    /\ libInv < MaxInvocations
    /\ libInv' = libInv + 1
    /\ libChain' = <<LibInvocationScope, libChain[2]>>
    /\ libSteps' = 0
    /\ UNCHANGED <<libMaps, libPc>>

(***************************************************************************)
(* WorkflowRoot.Execute: the scopes of invocations and the workflow names  *)
(* they bind                                                               *)
(***************************************************************************)

RootNoCall == [caller |-> "", callee |-> "", found |-> FALSE]

\* WorkflowRoot.Execute up to mainWorkflow.Execute(st)
WorkflowRootExecute ==
    LET
        \* Workflow names bound to functions in the scope of the invocation of
        \* main, lines 85-110: one function per workflow other than main, then the
        \* parameter of main is stored under its name.
        RootMainScope(doc, param) == doc \ {param}
    IN
            /\ rootPc = "start"
            /\ rootPc' = "running"
            /\ rootStack' = <<"main">>
            /\ rootScopes' = <<RootMainScope(rootDoc.workflows, rootDoc.param)>>
            /\ UNCHANGED <<rootDoc, rootLast>>

\* callStep.Execute on a workflow name in the innermost invocation:
\* symbolReference.ResolveValue fails with "not found symbol" when the scope
\* chain does not hold the name; else the function starts an invocation.
RootCallWorkflow ==
    LET
        \* Symbols of the scope the function of a sub-workflow creates for its
        \* invocation, lines 97-103: the parameters only (no workflow is named like
        \* a parameter in the model).
        RootSubWorkflowScope(doc) == {}
    IN
            /\ rootPc = "running"
            /\ Len(rootStack) < MaxDepth
            /\ \E callee \in rootDoc.workflows :
                  LET top == Len(rootStack)
                      found == callee \in rootScopes[top]
                  IN  /\ rootLast' = [caller |-> rootStack[top], callee |-> callee, found |-> found]
                      /\ IF found
                         THEN /\ rootStack' = Append(rootStack, callee)
                              /\ rootScopes' = Append(rootScopes, RootSubWorkflowScope(rootDoc.workflows))
                              /\ UNCHANGED rootPc
                         ELSE /\ rootPc' = "failed"
                              /\ UNCHANGED <<rootStack, rootScopes>>
            /\ UNCHANGED rootDoc

\* The innermost invocation returns.
RootWorkflowReturn ==
    /\ rootPc = "running"
    /\ rootStack' = SubSeq(rootStack, 1, Len(rootStack) - 1)
    /\ rootScopes' = SubSeq(rootScopes, 1, Len(rootScopes) - 1)
    /\ rootPc' = IF Len(rootStack) = 1 THEN "done" ELSE "running"
    /\ UNCHANGED <<rootDoc, rootLast>>

(***************************************************************************)
(* types.NewFunction and reflectFunc.Call                                  *)
(***************************************************************************)
\* types.Argument: no Default and not Optional, Optional, or with a Default.

FnBindNullToDefault(param, args, i) ==
    IF i > Len(args) \/ args[i] = "none" \/ (args[i] = "null" /\ param = "default")
    THEN CASE param = "required" -> "missing argument"
           [] param = "default" -> "default"
           [] param = "optional" -> "zero"
    ELSE CASE args[i] = "null" -> "zero"
           [] args[i] = "value" -> "value"
           [] args[i] = "mistyped" -> "invalid argument"

\* reflectFunc.Call, lines 208-238, for parameter i: what argValues[i]
\* becomes, or the error the loop returns.
FnBind(param, args, i) ==
    IF i > Len(args) \/ args[i] = "none"
    THEN CASE param = "required" -> "missing argument"
           [] param = "default" -> "default"
           [] param = "optional" -> "zero"
    ELSE CASE args[i] = "null" -> "zero"
           [] args[i] = "value" -> "value"
           [] args[i] = "mistyped" -> "invalid argument"

\* types.NewFunction
NewFunction ==
    LET
        \* NewFunction, lines 132-154: minimumArgs counts the required parameters
        \* that come before the first parameter with a default or the optional flag.
        RECURSIVE MinimumArgs(_, _, _)
        MinimumArgs(params, i, min) ==
            IF i > Len(params) THEN min
            ELSE IF params[i] = "required" /\ (i = 1 \/ (i - 1 = min /\ params[i - 1] = "required"))
                 THEN MinimumArgs(params, i + 1, min + 1)
                 ELSE MinimumArgs(params, i + 1, min)
    IN
            /\ fnPc = "declared"
            /\ fnMin' = MinimumArgs(fnParams, 1, 0)
            /\ fnPc' = "ready"
            /\ UNCHANGED <<fnParams, fnArgs, fnBound, fnErr>>

\* reflectFunc.Call
ReflectFuncCall ==
    LET
        FnIsError(b) == b \in {"missing argument", "invalid argument"}
    IN
            /\ fnPc = "ready"
            /\ fnPc' = "called"
            /\ LET bound == [i \in 1..Len(fnParams) |-> FnBind(fnParams[i], fnArgs, i)]
                   failed == { i \in 1..Len(fnParams) : FnIsError(bound[i]) }
                   first == CHOOSE i \in failed : \A j \in failed : i <= j
               IN  IF Len(fnArgs) > Len(fnParams)
                   THEN fnErr' = "too many arguments" /\ fnBound' = <<>>
                   ELSE IF Len(fnArgs) < fnMin
                   THEN fnErr' = "missing arguments" /\ fnBound' = <<>>
                   ELSE IF failed # {}
                   THEN fnErr' = bound[first] /\ fnBound' = SubSeq(bound, 1, first - 1)
                   ELSE fnErr' = "" /\ fnBound' = bound
            /\ UNCHANGED <<fnParams, fnArgs, fnMin>>

(***************************************************************************)
(* Defaults that are lists or maps: argDef.getDefaultValue,                *)
(* argDef.deepClone and rawFunction.Call                                   *)
(***************************************************************************)
\* A list or map value has two cells (elements 0 and 1, or two keys); a
\* callee changes a cell by assigning to x[0] or x.key.

DfCells == {"first", "second"}

DfInitial == [c \in DfCells |-> 0]

\* argDef.getDefaultValue for a reflectFunc (a clone for reflect.Array and
\* reflect.Map kinds only; a []any has kind reflect.Slice), and the
\* assignment args[i] = f.args[i].Default of rawFunction.Call.
GetDefaultValue(fn, declared) ==
    LET
        \* A handed-over value: the declared default itself (the same Go slice or
        \* map), or a copy with contents of its own.
        DfSameValue == [shared |-> TRUE, contents |-> DfInitial]

        DfCopyOf(contents) == [shared |-> FALSE, contents |-> contents]
    IN
            IF fn.kind = "reflect" /\ fn.default = "map" THEN DfCopyOf(declared)
            ELSE DfSameValue

\* A call that omits the argument.
DfCallOmittingArgument ==
    /\ dfPc = "ready"
    /\ Len(dfReceived) < MaxCalls
    /\ dfReceived' = Append(dfReceived, GetDefaultValue(dfFn, dfDeclared))
    /\ dfSeen' = Append(dfSeen, dfDeclared)
    /\ UNCHANGED <<dfFn, dfPc, dfDeclared>>

\* The callee of call c changes a cell of the value it received
\* (fieldReference / indexReference setter).
DfCalleeSetsCell ==
    LET
        DfCellValues == {0, 1, 2}
    IN
            /\ dfPc = "ready"
            /\ \E c \in 1..Len(dfReceived), cell \in DfCells, v \in DfCellValues \ {0} :
                  /\ c = Len(dfReceived)
                  /\ IF dfReceived[c].shared
                     THEN /\ dfDeclared' = [dfDeclared EXCEPT ![cell] = v]
                          /\ UNCHANGED dfReceived
                     ELSE /\ dfReceived' = [dfReceived EXCEPT ![c].contents[cell] = v]
                          /\ UNCHANGED dfDeclared
            /\ UNCHANGED <<dfFn, dfPc, dfSeen>>

(***************************************************************************)
(* Expression evaluation: calculateBinaryOperation.execute applied to two  *)
(* operand operations, as driven by Evaluator.EvaluateValue.               *)
(*                                                                         *)
(* A value is a record: type is the Go dynamic type ("nil" for the nil     *)
(* interface value), isnil tells a nil pointer, map or slice, fl is the    *)
(* class of a float64 ("fin", "+inf", "-inf", "nan"), num/den its value as *)
(* a fraction (den = 1 for an int64), str a string's text, tag the tag of  *)
(* a *types.Error.  An int64 outside the modelled range carries            *)
(* fl = "MinInt64" or "MaxInt64".  A Go run-time panic, which nothing in   *)
(* the program recovers, is the value of type "panic".                     *)
(***************************************************************************)

ExValue(type, isnil, fl, num, den, str, tag) ==
    [type |-> type, isnil |-> isnil, fl |-> fl, num |-> num, den |-> den, str |-> str, tag |-> tag]

ExNil == ExValue("nil", TRUE, "", 0, 1, "", "")

ExInt(n) == ExValue("int64", FALSE, "", n, 1, "", "")

ExFloat(n, d) == ExValue("float64", FALSE, "fin", n, d, "", "")

ExSpecialFloat(fl) == ExValue("float64", FALSE, fl, 0, 1, "", "")

ExBool(b) == ExValue("bool", FALSE, "", IF b THEN 1 ELSE 0, 1, "", "")

ExString(s) == ExValue("string", FALSE, "", 0, 1, s, "")

ExContainer(type, isnil) == ExValue(type, isnil, "", 0, 1, "", "")

ExError(tag) == ExValue("error", FALSE, "", 0, 1, "", tag)

TypeErrorTag == "TypeError"

ZeroDivisionErrorTag == "ZeroDivisionError"

IsNilInterfaceOnly(v) == v.type = "nil"

IsNil(v) ==
    LET
        (* reflect.Value.Kind of a non-nil interface value *)
        ReflectKind(v_) ==
            CASE v_.type = "*T" -> "ptr"
              [] v_.type = "map[string]any" -> "map"
              [] v_.type = "[]any" -> "slice"
              [] OTHER -> v_.type

        nilableTypeSet == {"interface", "ptr", "map", "slice", "chan", "func"}
    IN
        v.type = "nil" \/ (ReflectKind(v) \in nilableTypeSet /\ v.isnil)

(* Go's int64 quotient and remainder truncate toward zero *)
ExAbs(n) == IF n < 0 THEN 0 - n ELSE n

(* float64(lhs) / rhs for float64 operands given as fractions *)
FloatQuo(l, r) ==
    IF r.num = 0
    THEN IF l.num > 0 THEN ExSpecialFloat("+inf")
         ELSE IF l.num < 0 THEN ExSpecialFloat("-inf")
         ELSE ExSpecialFloat("nan")
    ELSE IF r.num > 0 THEN ExFloat(l.num * r.den, l.den * r.num)
         ELSE ExFloat(0 - l.num * r.den, l.den * (0 - r.num))

IntArith(op, l, r) ==
    LET
        ExPanic == ExValue("panic", FALSE, "", 0, 1, "integer divide by zero", "")

        GoQuo(a, b) ==
            IF (a < 0) = (b < 0) THEN ExAbs(a) \div ExAbs(b) ELSE 0 - (ExAbs(a) \div ExAbs(b))

        GoRem(a, b) == a - b * GoQuo(a, b)
    IN
            CASE op = "==" -> ExBool(l.num = r.num)
              [] op = "!=" -> ExBool(l.num # r.num)
              [] op = "+" -> ExInt(l.num + r.num)
              [] op = "-" -> ExInt(l.num - r.num)
              [] op = "*" -> ExInt(l.num * r.num)
              [] op = "/" -> FloatQuo(l, r)
              [] op = "//" -> IF r.num = 0 THEN ExPanic ELSE ExInt(GoQuo(l.num, r.num))
              [] op = "%" -> IF r.num = 0 THEN ExPanic ELSE ExInt(GoRem(l.num, r.num))
              [] OTHER -> ExError(TypeErrorTag)

CalculateBinaryOperation(arch, op, l, r) ==
    LET
        ExExtremeInt(which) == ExValue("int64", FALSE, which, 0, 1, "", "")

        (* math.Floor of a finite fraction with a positive denominator *)
        MathFloor(n, d) ==
            IF n >= 0 THEN n \div d ELSE 0 - ((ExAbs(n) + d - 1) \div d)

        (* int64(f): for a value that int64 cannot represent the result depends    *)
        (* on the target: amd64 gives the minimum int64 in every case, arm64       *)
        (* saturates and turns NaN into 0                                          *)
        Int64OfFloat(arch_, f) ==
            CASE f.fl = "fin" -> ExInt(MathFloor(f.num, f.den))
              [] arch_ = "amd64" -> ExExtremeInt("MinInt64")
              [] f.fl = "+inf" -> ExExtremeInt("MaxInt64")
              [] f.fl = "-inf" -> ExExtremeInt("MinInt64")
              [] OTHER -> ExInt(0)

        FloatEq(l_, r_) == l_.num * r_.den = r_.num * l_.den

        FloatArith(arch_, op_, l_, r_) ==
            CASE op_ = "==" -> ExBool(FloatEq(l_, r_))
              [] op_ = "!=" -> ExBool(~FloatEq(l_, r_))
              [] op_ = "+" -> ExFloat(l_.num * r_.den + r_.num * l_.den, l_.den * r_.den)
              [] op_ = "-" -> ExFloat(l_.num * r_.den - r_.num * l_.den, l_.den * r_.den)
              [] op_ = "*" -> ExFloat(l_.num * r_.num, l_.den * r_.den)
              [] op_ = "/" -> FloatQuo(l_, r_)
              [] op_ = "//" -> Int64OfFloat(arch_, FloatQuo(l_, r_))
              [] OTHER -> ExError(TypeErrorTag)

        (* the type switch that follows the null handling *)
        CalculateTyped(arch_, op_, l_, r_) ==
            CASE l_.type = "bool" /\ r_.type = "bool" /\ op_ = "==" -> ExBool(l_.num = r_.num)
              [] l_.type = "bool" /\ r_.type = "bool" /\ op_ = "!=" -> ExBool(l_.num # r_.num)
              [] l_.type = "string" /\ r_.type = "string" /\ op_ = "==" -> ExBool(l_.str = r_.str)
              [] l_.type = "string" /\ r_.type = "string" /\ op_ = "!=" -> ExBool(l_.str # r_.str)
              [] l_.type = "string" /\ r_.type = "string" /\ op_ = "+" -> ExString(l_.str \o r_.str)
              [] l_.type = "int64" /\ r_.type = "int64" -> IntArith(op_, l_, r_)
              [] l_.type \in {"int64", "float64"} /\ r_.type \in {"int64", "float64"} -> FloatArith(arch_, op_, l_, r_)
              [] OTHER -> ExError(TypeErrorTag)
    IN
            IF op \in {"==", "!="} /\ (IsNil(l) \/ IsNil(r))
            THEN IF op = "==" THEN ExBool(IsNil(l) /\ IsNil(r)) ELSE ExBool(~(IsNil(l) /\ IsNil(r)))
            ELSE CalculateTyped(arch, op, l, r)

ExArchs == {"amd64", "arm64"}

ExNoValue == ExValue("unset", FALSE, "", 0, 1, "", "")

(* operation.execute followed by Reference.ResolveValue and Get *)
ExOperandExecute(operand) == operand.value

ExecuteLeft ==
    /\ exPc = "left"
    /\ exLeft' = ExOperandExecute(exOperands[1])
    /\ exPc' = "right"
    /\ UNCHANGED <<exArch, exOp, exOperands, exRight, exRet>>

ExecuteRight ==
    /\ exPc = "right"
    /\ exRight' = ExOperandExecute(exOperands[2])
    /\ exPc' = "calculate"
    /\ UNCHANGED <<exArch, exOp, exOperands, exLeft, exRet>>

Calculate ==
    /\ exPc = "calculate"
    /\ exRet' = CalculateBinaryOperation(exArch, exOp, exLeft, exRight)
    /\ exPc' = "done"
    /\ UNCHANGED <<exArch, exOp, exOperands, exLeft, exRight>>

(***************************************************************************)
(* Expression parsing: lexer.consume, parser.constructAST and              *)
(* parser.constructOperation, followed by the evaluation of the operation  *)
(* tree.  A source is a sequence of characters; the modelled sources hold  *)
(* digits, spaces and the characters + - * / % ( ) only, so the string,    *)
(* symbol and '.' branches of the lexer are left out.  Positions are       *)
(* 1-based: index ranges over 1..Len(source)+1 and lastIndex is            *)
(* Len(source).                                                            *)
(***************************************************************************)

PsDigits == {"0", "1", "2", "3", "4", "5", "6", "7", "8", "9"}

PsDigitValue ==
    [c \in PsDigits |->
        CASE c = "0" -> 0 [] c = "1" -> 1 [] c = "2" -> 2 [] c = "3" -> 3 [] c = "4" -> 4
          [] c = "5" -> 5 [] c = "6" -> 6 [] c = "7" -> 7 [] c = "8" -> 8 [] OTHER -> 9]

infixOperatorBindingPowerFlat ==
    [op \in {",", "and", "or", "==", "!=", "<", "<=", ">", ">=", "in", "+", "-", "*", "/", "//", "%", "."} |->
        CASE op = "," -> 0
          [] op \in {"and", "or"} -> 1
          [] op \in {"==", "!=", "<", "<=", ">", ">=", "in"} -> 2
          [] op \in {"+", "-", "*", "/", "//", "%"} -> 4
          [] OTHER -> 7]

infixOperatorBindingPowerMap ==
    [op \in {",", "and", "or", "==", "!=", "<", "<=", ">", ">=", "in", "+", "-", "*", "/", "//", "%", "."} |->
        CASE op = "," -> 0
          [] op \in {"and", "or"} -> 1
          [] op \in {"==", "!=", "<", "<=", ">", ">=", "in"} -> 2
          [] op \in {"+", "-"} -> 4
          [] op \in {"*", "/", "//", "%"} -> 5
          [] OTHER -> 7]

(* an operation: kind is "literal", "unary", "binary" or "call" *)
PsOpe(kind, operator, value, args) ==
    [kind |-> kind, operator |-> operator, value |-> value, args |-> args]

PsNoOpe == PsOpe("none", "", ExNoValue, <<>>)

(* parser.parse *)
ParserParse(source) ==
    LET
        prefixOperatorBindingPowerMap ==
            [op \in {"not", "-", "+", "(", "["} |-> IF op = "not" THEN 3 ELSE 6]

        parenthesisPairMap == [op \in {"(", "["} |-> IF op = "(" THEN ")" ELSE "]"]

        PsTok(type, begins, ends) == [type |-> type, begins |-> begins, ends |-> ends]

        PsNoTok == PsTok("none", 0, 0)

        NewLexer == [index |-> 1, buf |-> <<>>]

        LexerIsCompleted(source_, lx) == lx.index = Len(source_) + 1 /\ Len(lx.buf) = 0

        LexerPush(lx, tok) == [lx EXCEPT !.buf = Append(lx.buf, tok)]

        PsScanned(tok, index_, err) == [tok |-> tok, index |-> index_, err |-> err]

        (* the for loop of lexer.consume; kind is the context on top of the stack *)
        RECURSIVE LexerScan(_, _, _, _)
        LexerScan(source_, index, kind, begins) ==
            IF index = Len(source_) + 1
            THEN PsScanned(PsNoTok, index, IF kind = "default" THEN "EOF" ELSE "unbalanced literal")
            ELSE IF kind = "default"
            THEN CASE source_[index] = " " -> LexerScan(source_, index + 1, kind, begins)
                   [] source_[index] \in PsDigits ->
                        IF index = Len(source_)
                        THEN PsScanned(PsTok("numeric", index, index + 1), index + 1, "")
                        ELSE LexerScan(source_, index + 1, "numeric", index)
                   [] source_[index] = "/" ->
                        IF index # Len(source_) /\ source_[index + 1] = "/"
                        THEN PsScanned(PsTok("operator", index, index + 2), index + 2, "")
                        ELSE PsScanned(PsTok("operator", index, index + 1), index + 1, "")
                   [] source_[index] \in {"+", "-", "*", "%", "(", ")"} ->
                        PsScanned(PsTok("operator", index, index + 1), index + 1, "")
                   [] OTHER -> PsScanned(PsNoTok, index, "invalid character")
            ELSE IF index # Len(source_) /\ source_[index] \in PsDigits
            THEN LexerScan(source_, index + 1, kind, begins)
            ELSE IF index = Len(source_) /\ source_[index] \in PsDigits
            THEN PsScanned(PsTok("numeric", begins, index + 1), index + 1, "")
            ELSE PsScanned(PsTok("numeric", begins, index), index, "")

        PsConsumed(tok, lx_, err) == [tok |-> tok, lx |-> lx_, err |-> err]

        LexerConsume(source_, lx) ==
            IF Len(lx.buf) # 0
            THEN PsConsumed(lx.buf[Len(lx.buf)], [lx EXCEPT !.buf = SubSeq(lx.buf, 1, Len(lx.buf) - 1)], "")
            ELSE LET r == LexerScan(source_, lx.index, "default", 0)
                 IN  PsConsumed(r.tok, [lx EXCEPT !.index = r.index], r.err)

        (* the text of an operator token *)
        ExtractLiteralString(source_, tok) ==
            IF tok.ends - tok.begins = 2
            THEN source_[tok.begins] \o source_[tok.begins + 1]
            ELSE source_[tok.begins]

        PsIsOperator(source_, tok, ops) ==
            tok.type = "operator" /\ ExtractLiteralString(source_, tok) \in ops

        (* strconv.ParseInt of the digits of a numeric token *)
        RECURSIVE ParseInt(_, _, _, _)
        ParseInt(source_, index, ends, acc) ==
            IF index = ends THEN acc
            ELSE ParseInt(source_, index + 1, ends, 10 * acc + PsDigitValue[source_[index]])

        PsAtom(tok) == [islist |-> FALSE, atom |-> tok, list |-> <<>>]

        PsList(list) == [islist |-> TRUE, atom |-> PsNoTok, list |-> list]

        PsNilAst == PsAtom(PsNoTok)

        PsParsed(sExpr, lx, err) == [ast |-> sExpr, lx |-> lx, err |-> err]

        PsInvalidToken == "invalid token"

        (* an error of a nested call, where io.EOF becomes an invalid token error *)
        PsEofIsInvalid(err) == IF err = "EOF" THEN PsInvalidToken ELSE err

        PsArgs(lx, minBP, left, tok, closeOP) ==
            [lx |-> lx, minBP |-> minBP, left |-> left, tok |-> tok, closeOP |-> closeOP]

        (* parser.constructAST as one recursive operator; fn names the part of the *)
        (* function that runs on the arguments a:                                  *)
        (*   "ast"           the whole function (a.lx, a.minBP)                    *)
        (*   "first"         the first token a.tok: an atom, a parenthesized       *)
        (*                   expression or a prefix operator                       *)
        (*   "parenthesized" the expression between a left parenthesis and its     *)
        (*                   closing token a.closeOP                               *)
        (*   "loop"          the for loop: infix operators after the operand       *)
        (*                   a.left                                                *)
        (*   "call"          a left parenthesis a.tok after the operand a.left: a  *)
        (*                   call, with or without arguments                       *)
        RECURSIVE ConstructAST(_, _, _)
        ConstructAST(fn, source_, a) ==
            CASE fn = "parenthesized" ->
                    LET s == ConstructAST("ast", source_, PsArgs(a.lx, 0, PsNilAst, PsNoTok, ""))
                        n == LexerConsume(source_, s.lx)
                    IN  IF s.err # "" THEN PsParsed(PsNilAst, s.lx, PsEofIsInvalid(s.err))
                        ELSE IF n.err # "" THEN PsParsed(PsNilAst, n.lx, PsEofIsInvalid(n.err))
                        ELSE IF ~PsIsOperator(source_, n.tok, {a.closeOP}) THEN PsParsed(PsNilAst, n.lx, PsInvalidToken)
                        ELSE PsParsed(s.ast, n.lx, "")
              [] fn = "first" ->
                    IF a.tok.type # "operator" THEN PsParsed(PsAtom(a.tok), a.lx, "")
                    ELSE IF ExtractLiteralString(source_, a.tok) \notin DOMAIN prefixOperatorBindingPowerMap
                    THEN PsParsed(PsNilAst, a.lx, PsInvalidToken)
                    ELSE IF ExtractLiteralString(source_, a.tok) \in DOMAIN parenthesisPairMap
                    THEN LET s == ConstructAST("parenthesized", source_,
                                               PsArgs(a.lx, 0, PsNilAst, PsNoTok,
                                                      parenthesisPairMap[ExtractLiteralString(source_, a.tok)]))
                         IN  IF s.err # "" THEN s ELSE PsParsed(PsList(<<PsAtom(a.tok), s.ast>>), s.lx, "")
                    ELSE LET s == ConstructAST("ast", source_,
                                               PsArgs(a.lx, prefixOperatorBindingPowerMap[ExtractLiteralString(source_, a.tok)] + 1,
                                                      PsNilAst, PsNoTok, ""))
                         IN  IF s.err # "" THEN PsParsed(PsNilAst, s.lx, PsEofIsInvalid(s.err))
                             ELSE IF s.ast.islist /\ Len(s.ast.list) = 2 /\ PsIsOperator(source_, s.ast.list[1].atom, {"+", "-"})
                             THEN PsParsed(PsNilAst, s.lx, PsInvalidToken)
                             ELSE PsParsed(PsList(<<PsAtom(a.tok), s.ast>>), s.lx, "")
              [] fn = "call" ->
                    LET closeOP == parenthesisPairMap[ExtractLiteralString(source_, a.tok)]
                        n == LexerConsume(source_, a.lx)
                        s == ConstructAST("parenthesized", source_,
                                          PsArgs(IF closeOP = ")" THEN LexerPush(n.lx, n.tok) ELSE a.lx, 0, PsNilAst, PsNoTok, closeOP))
                    IN  IF closeOP = ")" /\ n.err # "" THEN PsParsed(PsNilAst, n.lx, PsEofIsInvalid(n.err))
                        ELSE IF closeOP = ")" /\ PsIsOperator(source_, n.tok, {closeOP})
                        THEN ConstructAST("loop", source_,
                                          PsArgs(n.lx, a.minBP, PsList(<<PsAtom(a.tok), a.left, PsNilAst>>), PsNoTok, ""))
                        ELSE IF s.err # "" THEN s
                        ELSE ConstructAST("loop", source_,
                                          PsArgs(s.lx, a.minBP, PsList(<<PsAtom(a.tok), a.left, s.ast>>), PsNoTok, ""))
              [] fn = "loop" ->
                    LET c == LexerConsume(source_, a.lx)
                        op == ExtractLiteralString(source_, c.tok)
                        s == ConstructAST("ast", source_,
                                          PsArgs(c.lx, infixOperatorBindingPowerMap[op] + 1, PsNilAst, PsNoTok, ""))
                    IN  IF c.err = "EOF" THEN PsParsed(a.left, c.lx, "")
                        ELSE IF c.err # "" THEN PsParsed(PsNilAst, c.lx, c.err)
                        ELSE IF c.tok.type # "operator" THEN PsParsed(PsNilAst, c.lx, PsInvalidToken)
                        ELSE IF op \in DOMAIN infixOperatorBindingPowerMap
                        THEN IF infixOperatorBindingPowerMap[op] < a.minBP
                             THEN PsParsed(a.left, LexerPush(c.lx, c.tok), "")
                             ELSE IF s.err # "" THEN PsParsed(PsNilAst, s.lx, PsEofIsInvalid(s.err))
                             ELSE ConstructAST("loop", source_,
                                               PsArgs(s.lx, a.minBP, PsList(<<PsAtom(c.tok), a.left, s.ast>>), PsNoTok, ""))
                        ELSE IF op \in DOMAIN parenthesisPairMap
                        THEN IF prefixOperatorBindingPowerMap[op] < a.minBP
                             THEN PsParsed(a.left, LexerPush(c.lx, c.tok), "")
                             ELSE ConstructAST("call", source_, PsArgs(c.lx, a.minBP, a.left, c.tok, ""))
                        ELSE PsParsed(a.left, LexerPush(c.lx, c.tok), "")
              [] OTHER ->
                    LET c == LexerConsume(source_, a.lx)
                        first == ConstructAST("first", source_, PsArgs(c.lx, 0, PsNilAst, c.tok, ""))
                    IN  IF c.err # "" THEN PsParsed(PsNilAst, c.lx, c.err)
                        ELSE IF first.err # "" THEN first
                        ELSE ConstructAST("loop", source_, PsArgs(first.lx, a.minBP, first.ast, PsNoTok, ""))

        PsConstructed(ope, err) == [ope |-> ope, err |-> err]

        ConstructOperationByAtom(source_, tok) ==
            IF tok.type = "numeric"
            THEN PsConstructed(PsOpe("literal", "", ExInt(ParseInt(source_, tok.begins, tok.ends, 0)), <<>>), "")
            ELSE PsConstructed(PsNoOpe, PsInvalidToken)

        RECURSIVE ConstructOperation(_, _)
        ConstructOperation(source_, sExpr) ==
            IF ~sExpr.islist THEN ConstructOperationByAtom(source_, sExpr.atom)
            ELSE LET op == ExtractLiteralString(source_, sExpr.list[1].atom)
                     l == ConstructOperation(source_, sExpr.list[2])
                     r == ConstructOperation(source_, sExpr.list[3])
                 IN  IF Len(sExpr.list) = 2
                     THEN IF op = "(" \/ l.err # "" THEN l
                          ELSE PsConstructed(PsOpe("unary", op, ExNoValue, <<l.ope>>), "")
                     ELSE IF l.err # "" THEN l
                     ELSE IF op = "(" /\ sExpr.list[3] = PsNilAst
                     THEN PsConstructed(PsOpe("call", op, ExNoValue, <<l.ope>>), "")
                     ELSE IF r.err # "" THEN r
                     ELSE PsConstructed(PsOpe(IF op = "(" THEN "call" ELSE "binary", op, ExNoValue, <<l.ope, r.ope>>), "")
    IN
            LET s == ConstructAST("ast", source, PsArgs(NewLexer, 0, PsNilAst, PsNoTok, ""))
            IN  IF s.err \notin {"", "EOF"} THEN PsConstructed(PsNoOpe, s.err)
                ELSE IF ~LexerIsCompleted(source, s.lx) THEN PsConstructed(PsNoOpe, PsInvalidToken)
                ELSE IF s.err = "EOF" THEN PsConstructed(PsNoOpe, "empty expression")
                ELSE ConstructOperation(source, s.ast)

(* operation.execute on an operation tree whose atoms are literals *)
RECURSIVE OperationExecute(_, _)
OperationExecute(arch, ope) ==
    LET
        CalculateUnaryOperation(op, v) ==
            CASE op = "+" /\ v.type \in {"int64", "float64"} -> v
              [] op = "-" /\ v.type \in {"int64", "float64"} /\ v.fl \in {"", "fin"} -> [v EXCEPT !.num = 0 - v.num]
              [] op = "-" /\ v.type = "float64" /\ v.fl = "+inf" -> ExSpecialFloat("-inf")
              [] op = "-" /\ v.type = "float64" /\ v.fl = "-inf" -> ExSpecialFloat("+inf")
              [] op = "-" /\ v.type = "float64" -> v
              [] OTHER -> ExError(TypeErrorTag)

        PsFailed(v) == v.type \in {"error", "panic"}
    IN
            CASE ope.kind = "literal" -> ope.value
              [] ope.kind = "unary" ->
                    LET v == OperationExecute(arch, ope.args[1])
                    IN  IF PsFailed(v) THEN v ELSE CalculateUnaryOperation(ope.operator, v)
              [] ope.kind = "binary" ->
                    LET l == OperationExecute(arch, ope.args[1])
                        r == OperationExecute(arch, ope.args[2])
                    IN  IF PsFailed(l) THEN l
                        ELSE IF PsFailed(r) THEN r
                        ELSE CalculateBinaryOperation(arch, ope.operator, l, r)
              [] OTHER -> ExError(TypeErrorTag)

PsShapes == {"flat", "left", "right"}

PsNoForm ==
    [shape |-> "other", a |-> [chars |-> <<"0">>, n |-> 0], b |-> [chars |-> <<"0">>, n |-> 0],
     c |-> [chars |-> <<"0">>, n |-> 0], op1 |-> "+", op2 |-> "+"]

PsExample == <<"1", " ", "+", " ", "2", " ", "-", " ", "3", " ", "*", " ", "4", " ", "/", "/", " ", "5">>

PsExampleCompact == <<"1", "+", "2", "-", "3", "*", "4", "/", "/", "5">>

ParseExpr ==
    /\ psPc = "source"
    /\ LET p == ParserParse(psInput.source)
       IN  /\ psOperation' = p.ope
           /\ psPc' = IF p.err = "" THEN "parsed" ELSE "failed"
    /\ UNCHANGED <<psArch, psInput, psRet>>

EvaluateValue ==
    /\ psPc = "parsed"
    /\ psRet' = OperationExecute(psArch, psOperation)
    /\ psPc' = "done"
    /\ UNCHANGED <<psArch, psInput, psOperation>>

(***************************************************************************)
(* decodeJSONNumber.  A json.Number is the text of a number of the          *)
(* document.  An int64 is held as its sign and the decimal digits of its    *)
(* magnitude, a float64 as the sign, integer digits, fraction digits and    *)
(* decimal exponent of the text it was parsed from (the rounding to 53 bits *)
(* is left out) or as an infinity.                                          *)
(***************************************************************************)

NumValue(type, neg, int, frac, exp, inf, err) ==
    [type |-> type, neg |-> neg, int |-> int, frac |-> frac, exp |-> exp, inf |-> inf, err |-> err]

NumNoValue == NumValue("none", FALSE, <<>>, <<>>, 0, FALSE, "nil")

\* math.MaxInt64 and the magnitude of math.MinInt64
NumMaxInt64 ==
    <<"9", "2", "2", "3", "3", "7", "2", "0", "3", "6", "8", "5", "4", "7", "7", "5", "8", "0", "7">>

NumMinInt64 ==
    <<"9", "2", "2", "3", "3", "7", "2", "0", "3", "6", "8", "5", "4", "7", "7", "5", "8", "0", "8">>

\* a > b for two magnitudes written without leading zeros
NumGreater(a, b) ==
    \/ Len(a) > Len(b)
    \/ /\ Len(a) = Len(b)
       /\ \E i \in 1..Len(a) :
            /\ PsDigitValue[a[i]] > PsDigitValue[b[i]]
            /\ \A j \in 1..(i - 1) : a[j] = b[j]

DecodeJSONNumber ==
    LET
        \* strings.IndexAny, 1-based; 0 when no character of chars occurs
        NumIndex(text, chars) ==
            IF \E i \in 1..Len(text) : text[i] \in chars
            THEN CHOOSE i \in 1..Len(text) :
                    /\ text[i] \in chars
                    /\ \A j \in 1..(i - 1) : text[j] \notin chars
            ELSE 0

        \* json.Number.Int64: strconv.ParseInt(text, 10, 64)
        StrconvParseInt(text) ==
            LET signed == text # <<>> /\ text[1] \in {"+", "-"}
                neg == signed /\ text[1] = "-"
                digits == IF signed THEN Tail(text) ELSE text
            IN  IF digits = <<>> \/ \E i \in 1..Len(digits) : digits[i] \notin PsDigits
                THEN NumValue("int", FALSE, <<"0">>, <<>>, 0, FALSE, "ErrSyntax")
                ELSE IF ~neg /\ NumGreater(digits, NumMaxInt64)
                THEN NumValue("int", FALSE, NumMaxInt64, <<>>, 0, FALSE, "ErrRange")
                ELSE IF neg /\ NumGreater(digits, NumMinInt64)
                THEN NumValue("int", TRUE, NumMinInt64, <<>>, 0, FALSE, "ErrRange")
                ELSE NumValue("int", neg /\ digits # <<"0">>, digits, <<>>, 0, FALSE, "nil")

        \* the value of a short run of digits
        RECURSIVE NumSmallInt(_)
        NumSmallInt(digits) ==
            IF digits = <<>> THEN 0
            ELSE 10 * NumSmallInt(SubSeq(digits, 1, Len(digits) - 1)) + PsDigitValue[digits[Len(digits)]]

        \* the largest decimal exponent of a finite float64 (1.797e308)
        NumMaxExp10 == 308

        \* json.Number.Float64: strconv.ParseFloat(text, 64), for a text of the JSON
        \* number grammar
        StrconvParseFloat(text) ==
            LET neg == text[1] = "-"
                body == IF neg THEN Tail(text) ELSE text
                e == NumIndex(body, {"e", "E"})
                mantissa == IF e = 0 THEN body ELSE SubSeq(body, 1, e - 1)
                exponent == IF e = 0 THEN 0 ELSE NumSmallInt(SubSeq(body, e + 1, Len(body)))
                dot == NumIndex(mantissa, {"."})
                int == IF dot = 0 THEN mantissa ELSE SubSeq(mantissa, 1, dot - 1)
                frac == IF dot = 0 THEN <<>> ELSE SubSeq(mantissa, dot + 1, Len(mantissa))
                zero == \A i \in 1..Len(int) : int[i] = "0"
            IN  IF ~zero /\ exponent + Len(int) - 1 > NumMaxExp10
                THEN NumValue("float", neg, <<>>, <<>>, 0, TRUE, "ErrRange")
                ELSE NumValue("float", neg, int, frac, exponent, FALSE, "nil")

        \* decodeJSONNumber
        DecodeJSONNumberOf(n) ==
            LET i == StrconvParseInt(n)
            IN  IF NumIndex(n, {"."}) = 0 /\ i.err # "ErrSyntax" THEN i
                ELSE StrconvParseFloat(n)
    IN
            /\ numPc = "number"
            /\ numRet' = DecodeJSONNumberOf(numText)
            /\ numPc' = "decoded"
            /\ UNCHANGED numText

(***************************************************************************)
(* server.NewHTTPHandler, httpHandler.createExecution and                  *)
(* httpHandler.execute.  A WorkflowRoot is known by the version of the     *)
(* document it was parsed from; its main workflow has MaxWfSteps steps.     *)
(* An execution records every step it runs as [program, index, current]:   *)
(* the root the step belongs to, its position, and h.workflowRoot at the   *)
(* time it ran.                                                            *)
(***************************************************************************)

HttpExecutions == 1..MaxExecutions

\* the WorkflowRoot an execution runs: the value execute loaded
ExecutionRootCurrent(e) == httpRoot

ExecutionRoot(e) == httpEx[e].root

\* the document on disk is rewritten, as a well-formed or as a broken file
EditDocument ==
    /\ httpRoot # 0
    /\ httpFile.version < 1 + MaxDocuments
    /\ \E valid \in BOOLEAN : httpFile' = [version |-> httpFile.version + 1, valid |-> valid]
    /\ UNCHANGED <<httpRoot, httpLoaded, httpEx>>

\* NewHTTPHandler: the first loader() and Store; an error ends the program
NewHTTPHandler ==
    /\ httpRoot = 0
    /\ httpFile.valid
    /\ httpRoot' = httpFile.version
    /\ UNCHANGED <<httpFile, httpLoaded, httpEx>>

\* the reload goroutine on a tick: root, err := loader(); continue on an error
ReloadLoader ==
    /\ httpRoot # 0
    /\ httpLoaded = 0
    /\ httpLoaded' = IF httpFile.valid THEN httpFile.version ELSE 0
    /\ UNCHANGED <<httpFile, httpRoot, httpEx>>

\* the reload goroutine: h.workflowRoot.Store(root)
ReloadStore ==
    /\ httpLoaded # 0
    /\ httpRoot' = httpLoaded
    /\ httpLoaded' = 0
    /\ UNCHANGED <<httpFile, httpEx>>

\* createExecution: the execution is stored as ACTIVE and `go h.execute`
CreateExecution(e) ==
    /\ httpRoot # 0
    /\ httpEx[e].state = ""
    /\ \A f \in 1..(e - 1) : httpEx[f].state # ""
    /\ httpEx' = [httpEx EXCEPT ![e].state = "ACTIVE"]
    /\ UNCHANGED <<httpFile, httpRoot, httpLoaded>>

\* execute: h.workflowRoot.Load()
ExecuteLoad(e) ==
    /\ httpEx[e].state = "ACTIVE"
    /\ httpEx[e].root = 0
    /\ httpEx' = [httpEx EXCEPT ![e].root = httpRoot]
    /\ UNCHANGED <<httpFile, httpRoot, httpLoaded>>

\* WorkflowRoot.Execute of the loaded root: one step of the main workflow;
\* after the last step execute marks the execution SUCCEEDED
ExecuteStep(e) ==
    /\ httpEx[e].state = "ACTIVE"
    /\ httpEx[e].root # 0
    /\ LET ran == Append(httpEx[e].ran,
                         [program |-> ExecutionRoot(e), index |-> Len(httpEx[e].ran) + 1,
                          current |-> httpRoot])
       IN  httpEx' = [httpEx EXCEPT ![e].ran = ran,
                                    ![e].state = IF Len(ran) = MaxWfSteps THEN "SUCCEEDED"
                                                 ELSE "ACTIVE"]
    /\ UNCHANGED <<httpFile, httpRoot, httpLoaded>>

(***************************************************************************)
(* events.create_callback_endpoint and events.await_callback.  Every       *)
(* request is served by its own goroutine of the endpoint's http.Server;   *)
(* resultChan is unbuffered, so a handler's send and await_callback's      *)
(* receive are one step.                                                   *)
(***************************************************************************)

EvRequests == 1..MaxRequests

EvNoRet == [err |-> "", request |-> 0]

EvAnswer(r, resp) == [evReqs EXCEPT ![r] = [pc |-> "done", resp |-> resp]]

\* the server accepts a connection and starts the handler
ServeRequest(r) ==
    /\ evAwait \in {"created", "waiting"}
    /\ evReqs[r].pc = "absent"
    /\ evReqs' = [evReqs EXCEPT ![r].pc = "handler"]
    /\ UNCHANGED <<evKinds, evReceived, evAwait, evRet>>

\* the handler: the method test and callback.received.Swap(true)
HandlerSwap(r) ==
    /\ evReqs[r].pc = "handler"
    /\ IF evKinds[r] = "wrong method"
       THEN evReqs' = EvAnswer(r, "405 Method Not Allowed") /\ UNCHANGED evReceived
       ELSE IF evReceived
       THEN evReqs' = EvAnswer(r, "400 Callback request is already consumed") /\ UNCHANGED evReceived
       ELSE evReqs' = [evReqs EXCEPT ![r].pc = "body"] /\ evReceived' = TRUE
    /\ UNCHANGED <<evKinds, evAwait, evRet>>

\* the handler: headers, query and body; then WriteHeader(204)
HandlerBody(r) ==
    /\ evReqs[r].pc = "body"
    /\ evReqs' = IF evKinds[r] = "malformed" THEN EvAnswer(r, "400 Invalid JSON format")
                 ELSE [evReqs EXCEPT ![r] = [pc |-> "send", resp |-> "204 No Content"]]
    /\ UNCHANGED <<evKinds, evReceived, evAwait, evRet>>

\* await_callback is called with the callback object: the timer starts
AwaitCallback ==
    /\ evAwait = "created"
    /\ evAwait' = "waiting"
    /\ UNCHANGED <<evKinds, evReqs, evReceived, evRet>>

\* select: res := <-callback.resultChan, with the handler's send
AwaitReceive(r) ==
    /\ evAwait = "waiting"
    /\ evReqs[r].pc = "send"
    /\ evRet' = [err |-> "nil", request |-> r]
    /\ evAwait' = "returned"
    /\ evReqs' = [evReqs EXCEPT ![r].pc = "done"]
    /\ UNCHANGED <<evKinds, evReceived>>

\* select: <-t.C; the deferred function closes resultChan and shuts the
\* server down
AwaitTimeout ==
    /\ evAwait = "waiting"
    /\ evRet' = [err |-> "TimeoutError", request |-> 0]
    /\ evAwait' = "returned"
    /\ UNCHANGED <<evKinds, evReqs, evReceived>>

\* the handler's send on the closed resultChan panics; net/http recovers
\* the panic and drops the connection
HandlerSendClosed(r) ==
    /\ evAwait = "returned"
    /\ evReqs[r].pc = "send"
    /\ evReqs' = EvAnswer(r, "aborted")
    /\ UNCHANGED <<evKinds, evReceived, evAwait, evRet>>

(***************************************************************************)
(* SymbolTable.KeysChan / keysChan and the range loop of                   *)
(* forStep.executeInParallel over the channel.  ch is unbuffered: a send   *)
(* of keysChan and a receive of the loop are one step.  keysChan of the    *)
(* last scope returning ends the goroutine (kcScope = Len(kcChain) + 1).   *)
(***************************************************************************)

\* KeysChan: make the channel and start the goroutine, which descends to
\* the outermost parent
KeysChan ==
    /\ kcPc = "clone"
    /\ kcScope' = 1
    /\ kcLeft' = kcChain[1]
    /\ kcPc' = "range"
    /\ UNCHANGED <<kcChain, kcClosed, kcKeys>>

\* `for key := range symbolTable.KeysChan()`: the loop ends when ch is
\* closed and drained; otherwise it receives the key keysChan sends, the
\* keys of a map coming in any order
ExecuteInParallelRange ==
    /\ kcPc = "range"
    /\ IF kcClosed
       THEN kcPc' = "share" /\ UNCHANGED <<kcLeft, kcKeys>>
       ELSE /\ kcScope <= Len(kcChain)
            /\ \E key \in kcLeft :
                  /\ kcLeft' = kcLeft \ {key}
                  /\ kcKeys' = Append(kcKeys, [scope |-> kcScope, key |-> key])
            /\ UNCHANGED kcPc
    /\ UNCHANGED <<kcChain, kcScope, kcClosed>>

\* keysChan: the loop over st.Symbols is over and the call returns, to the
\* loop of the child scope or out of the goroutine
KeysChanReturn ==
    /\ kcScope \in 1..Len(kcChain)
    /\ kcLeft = {}
    /\ kcScope' = kcScope + 1
    /\ kcLeft' = IF kcScope < Len(kcChain) THEN kcChain[kcScope + 1] ELSE {}
    /\ UNCHANGED <<kcChain, kcClosed, kcKeys, kcPc>>

(***************************************************************************)
(* exceptStep.execute.  The handler runs with a symbol table whose current *)
(* scope is a copy of the Symbols map of the try step's current scope and  *)
(* whose Parent is the Parent of that scope: the copy is private to the    *)
(* handler, the parents are the very scopes the try step's table has.  The *)
(* steps after the try step go on with the try step's table, hdChain.      *)
(***************************************************************************)

HdNoScope == [syms |-> [k \in StKeys |-> StAbsent], ro |-> FALSE]

\* execute up to s.steps.Execute: clone the scope and bind the payload to
\* the `as` symbol through the clone
ExceptStepExecute ==
    LET
        HdPayload == 0
    IN
            /\ hdPc = "caught"
            /\ LET cloned == Head(hdChain)
                   r == ChainSet(<<cloned>> \o Tail(hdChain), hdDef.as, HdPayload)
               IN  IF r.panicked
                   THEN /\ hdPc' = "panicked"
                        /\ hdClone' = cloned
                        /\ UNCHANGED hdChain
                   ELSE /\ hdPc' = "steps"
                        /\ hdClone' = Head(r.chain)
                        /\ hdChain' = <<Head(hdChain)>> \o Tail(r.chain)
            /\ UNCHANGED <<hdOrig, hdDef, hdStep>>

\* one assign step of the handler, executed with the handler's evaluator
HandlerAssignStep ==
    LET
        \* the symbol table of the handler's evaluator
        HdHandlerChain == <<hdClone>> \o Tail(hdChain)

        \* SymbolTable.Set called on the handler's table: the copy takes what lands
        \* in its current scope, the shared parents take the rest
        HdSet(k, v) ==
            LET r == ChainSet(HdHandlerChain, k, v)
            IN  [panicked |-> r.panicked,
                 clone |-> Head(r.chain),
                 chain |-> <<Head(hdChain)>> \o Tail(r.chain)]
    IN
            /\ hdPc = "steps"
            /\ hdStep <= Len(hdDef.steps)
            /\ LET r == HdSet(hdDef.steps[hdStep].key, hdDef.steps[hdStep].value)
               IN  IF r.panicked
                   THEN hdPc' = "panicked" /\ UNCHANGED <<hdChain, hdClone, hdStep>>
                   ELSE /\ hdClone' = r.clone
                        /\ hdChain' = r.chain
                        /\ hdStep' = hdStep + 1
                        /\ UNCHANGED hdPc
            /\ UNCHANGED <<hdOrig, hdDef>>

\* s.steps.Execute is over and execute returns; the handler's table is
\* dropped
ExceptStepReturn ==
    /\ hdPc = "steps"
    /\ hdStep = Len(hdDef.steps) + 1
    /\ hdPc' = "done"
    /\ UNCHANGED <<hdChain, hdOrig, hdClone, hdDef, hdStep>>

(***************************************************************************)
(* The components a specification does not run stay idle: Idle(g) holds    *)
(* the idle values of every group of variables but g.                      *)
(***************************************************************************)

Idle(g) ==
    /\ IF g = "wf" THEN TRUE
       ELSE /\ wfDoc = <<>>
            /\ wfParam = "none"
            /\ wfPc = "idle"
            /\ wfCur = 0
            /\ wfTrace = <<>>
            /\ wfRet = "nil"
            /\ wfErr = NoErr
    /\ IF g = "sw" THEN TRUE
       ELSE /\ swDoc = <<>>
            /\ swConds = <<>>
            /\ swDefault = "none"
            /\ swPc = "idle"
            /\ swI = 1
            /\ swEvaluated = <<>>
            /\ swRan = <<>>
            /\ swOut = SwNoOut
    /\ IF g = "try" THEN TRUE
       ELSE /\ tryDef = [retry |-> "none", max_retries |-> 0, backoff |-> TryNoBackoff,
                         predicate |-> "always", except |-> FALSE]
            /\ tryPc = "idle"
            /\ tryRetry = TryNoRetry
            /\ tryRuns = <<>>
            /\ tryErr = <<>>
            /\ tryPreds = 0
            /\ trySleeps = <<>>
            /\ tryHandled = <<>>
            /\ tryOut = TryNoOut
    /\ IF g = "par" THEN TRUE
       ELSE /\ parDef = [shared |-> <<>>, n |-> 1, body |-> [kind |-> "call", targets |-> <<>>]]
            /\ parPc = "idle"
            /\ parOrig = [r \in ParRoots |-> ParUndef]
            /\ parClone = [r \in ParRoots |-> ParUndef]
            /\ parShared = [r \in ParRoots |-> "absent"]
            /\ parHandle = [r \in ParRoots |-> [value |-> ParUndef, lockedBy |-> 0]]
            /\ parTask = [t \in ParTasks |-> ParIdleTask]
            /\ parFinished = <<>>
            /\ parErr = 0
    /\ IF g = "cmp" THEN TRUE
       ELSE /\ cmpDef = CmpLeafDef({})
            /\ cmpPc = "idle"
            /\ cmpStep = CmpFail("")
            /\ cmpOut = CmpNoOut
    /\ IF g = "st" THEN TRUE
       ELSE /\ stChain = <<>>
            /\ stPc = "idle"
            /\ stOps = 0
            /\ stLast = StNoCall
    /\ IF g = "for" THEN TRUE
       ELSE /\ forDef = [in |-> <<>>, isList |-> TRUE, body |-> <<[assign |-> "sum", next |-> ""]>>]
            /\ forChain = <<>>
            /\ forPc = "idle"
            /\ forI = 0
            /\ forStep = 1
            /\ forTrace = <<>>
            /\ forOut = "nil"
    /\ IF g = "lib" THEN TRUE
       ELSE /\ libMaps = [m \in LibMapRefs |-> [f \in LibFields |-> "fn"]]
            /\ libChain = <<>>
            /\ libPc = "idle"
            /\ libInv = 0
            /\ libSteps = 0
    /\ IF g = "root" THEN TRUE
       ELSE /\ rootDoc = [workflows |-> {}, param |-> ""]
            /\ rootPc = "idle"
            /\ rootStack = <<>>
            /\ rootScopes = <<>>
            /\ rootLast = RootNoCall
    /\ IF g = "fn" THEN TRUE
       ELSE /\ fnParams = <<>>
            /\ fnArgs = <<>>
            /\ fnPc = "idle"
            /\ fnMin = 0
            /\ fnBound = <<>>
            /\ fnErr = ""
    /\ IF g = "df" THEN TRUE
       ELSE /\ dfFn = [kind |-> "reflect", default |-> "list"]
            /\ dfPc = "idle"
            /\ dfDeclared = DfInitial
            /\ dfReceived = <<>>
            /\ dfSeen = <<>>
    /\ IF g = "ex" THEN TRUE
       ELSE /\ exArch = "amd64"
            /\ exOp = "=="
            /\ exOperands = [i \in 1..2 |-> [via |-> "literal", value |-> ExNil]]
            /\ exPc = "idle"
            /\ exLeft = ExNoValue
            /\ exRight = ExNoValue
            /\ exRet = ExNoValue
    /\ IF g = "ps" THEN TRUE
       ELSE /\ psArch = "amd64"
            /\ psInput = [form |-> PsNoForm, source |-> <<>>]
            /\ psPc = "idle"
            /\ psOperation = PsNoOpe
            /\ psRet = ExNoValue
    /\ IF g = "num" THEN TRUE
       ELSE /\ numText = <<>>
            /\ numPc = "idle"
            /\ numRet = NumNoValue
    /\ IF g = "http" THEN TRUE
       ELSE /\ httpFile = [version |-> 0, valid |-> FALSE]
            /\ httpRoot = 0
            /\ httpLoaded = 0
            /\ httpEx = <<>>
    /\ IF g = "ev" THEN TRUE
       ELSE /\ evKinds = <<>>
            /\ evReqs = <<>>
            /\ evReceived = FALSE
            /\ evAwait = "idle"
            /\ evRet = EvNoRet
    /\ IF g = "kc" THEN TRUE
       ELSE /\ kcChain = <<>>
            /\ kcScope = 0
            /\ kcLeft = {}
            /\ kcClosed = FALSE
            /\ kcKeys = <<>>
            /\ kcPc = "idle"
    /\ IF g = "hd" THEN TRUE
       ELSE /\ hdChain = <<>>
            /\ hdOrig = <<>>
            /\ hdClone = HdNoScope
            /\ hdDef = [as |-> "k", steps |-> <<>>]
            /\ hdStep = 1
            /\ hdPc = "idle"

Next ==
    \/ WorkflowExecuteParams /\ UNCHANGED <<swVars, tryVars, parVars, cmpVars, stVars, forVars, libVars, rootVars, fnVars, dfVars, exVars, psVars, numVars, httpVars, evVars, kcVars, hdVars>>
    \/ WorkflowExecuteStep /\ UNCHANGED <<swVars, tryVars, parVars, cmpVars, stVars, forVars, libVars, rootVars, fnVars, dfVars, exVars, psVars, numVars, httpVars, evVars, kcVars, hdVars>>

Spec ==
    /\ LET
           WfStepNames == {"a", "b", ""}

           \* What the anonymous step wrapped by a named step returns as next step.
           WfNextNames == {"", "end", "a", "b", "ghost"}

           WfValues == {"v1", "v2"}

           \* One named step of the document: its name and the (ret, next, err) its
           \* wrapped anonymous step returns.
           WfStepDefs == [name : WfStepNames, ret : WfValues, next : WfNextNames, err : BOOLEAN]

           \* workflowDef.compile rejects duplicated step names.
           WfNoDuplicates(doc) ==
               \A i, j \in 1..Len(doc) : doc[i].name = doc[j].name => i = j

           WfDocs ==
               { doc \in UNION { [1..n -> WfStepDefs] : n \in 1..MaxWfSteps } : WfNoDuplicates(doc) }

           WfInit ==
               /\ wfDoc \in WfDocs
               /\ wfParam \in {"none", "bound", "optional", "default", "required"}
               /\ wfPc = "start"
               /\ wfCur = 1
               /\ wfTrace = <<>>
               /\ wfRet = "nil"
               /\ wfErr = NoErr
       IN  WfInit /\ Idle("wf")
    /\ [][Next]_vars

NextSwitch ==
    \/ NewSwitchStep /\ UNCHANGED <<wfVars, tryVars, parVars, cmpVars, stVars, forVars, libVars, rootVars, fnVars, dfVars, exVars, psVars, numVars, httpVars, evVars, kcVars, hdVars>>
    \/ SwitchExecuteCondition /\ UNCHANGED <<wfVars, tryVars, parVars, cmpVars, stVars, forVars, libVars, rootVars, fnVars, dfVars, exVars, psVars, numVars, httpVars, evVars, kcVars, hdVars>>
    \/ SwitchExecuteDefault /\ UNCHANGED <<wfVars, tryVars, parVars, cmpVars, stVars, forVars, libVars, rootVars, fnVars, dfVars, exVars, psVars, numVars, httpVars, evVars, kcVars, hdVars>>

SpecSwitch ==
    /\ LET
           SwExprKinds == {"T", "F", "N", "E"}

           SwCondKinds == SwExprKinds \cup {"bare true", "other"}

           \* The body of a switch entry, classified by what executing it returns.
           SwBodyKinds == {"fall", "end", "jump", "err"}

           SwEntries == [cond : SwCondKinds, body : SwBodyKinds]

           SwDocs == UNION { [1..n -> SwEntries] : n \in 1..MaxConds }

           SwInit ==
               /\ swDoc \in SwDocs
               /\ swConds = <<>>
               /\ swDefault = "none"
               /\ swPc = "compile"
               /\ swI = 1
               /\ swEvaluated = <<>>
               /\ swRan = <<>>
               /\ swOut = SwNoOut
       IN  SwInit /\ Idle("sw")
    /\ [][NextSwitch]_vars

NextTry ==
    \/ TryStepExecute /\ UNCHANGED <<wfVars, swVars, parVars, cmpVars, stVars, forVars, libVars, rootVars, fnVars, dfVars, exVars, psVars, numVars, httpVars, evVars, kcVars, hdVars>>
    \/ TryStepExecuteBody /\ UNCHANGED <<wfVars, swVars, parVars, cmpVars, stVars, forVars, libVars, rootVars, fnVars, dfVars, exVars, psVars, numVars, httpVars, evVars, kcVars, hdVars>>
    \/ TryStepPredicate /\ UNCHANGED <<wfVars, swVars, parVars, cmpVars, stVars, forVars, libVars, rootVars, fnVars, dfVars, exVars, psVars, numVars, httpVars, evVars, kcVars, hdVars>>
    \/ TryStepBackoff /\ UNCHANGED <<wfVars, swVars, parVars, cmpVars, stVars, forVars, libVars, rootVars, fnVars, dfVars, exVars, psVars, numVars, httpVars, evVars, kcVars, hdVars>>
    \/ TryStepNotRetried /\ UNCHANGED <<wfVars, swVars, parVars, cmpVars, stVars, forVars, libVars, rootVars, fnVars, dfVars, exVars, psVars, numVars, httpVars, evVars, kcVars, hdVars>>

SpecTry ==
    /\ LET
           \* The float64 fields of retryBackoffPolicyDef are written in quarters:
           \* 2 is 0.5, 4 is 1.0, 5 is 1.25, 6 is 1.5, 8 is 2.0.
           TryDelayFloats == {0, 2, 4, 6}

           TryMaxDelayFloats == {2, 4, 8}

           TryMultiplierFloats == {4, 5, 8}

           TryBackoffDefs ==
               {TryNoBackoff} \cup [present : {TRUE}, initial_delay : TryDelayFloats,
                                    max_delay : TryMaxDelayFloats, multiplier : TryMultiplierFloats]

           \* retry: absent, a policy, or an expression that does not yield a policy.
           \* predicate: retry.always, retry.never, or a function of the exception.
           TryDefs ==
               [retry : {"none"}, max_retries : {0}, backoff : {TryNoBackoff}, predicate : {"always"},
                except : BOOLEAN]
               \cup [retry : {"invalid"}, max_retries : {0}, backoff : {TryNoBackoff}, predicate : {"always"},
                     except : BOOLEAN]
               \cup [retry : {"policy"}, max_retries : (-1)..MaxRetries, backoff : TryBackoffDefs,
                     predicate : {"always", "never", "any"}, except : BOOLEAN]

           TryInit ==
               /\ tryDef \in TryDefs
               /\ tryPc = "start"
               /\ tryRetry = TryNoRetry
               /\ tryRuns = <<>>
               /\ tryErr = <<>>
               /\ tryPreds = 0
               /\ trySleeps = <<>>
               /\ tryHandled = <<>>
               /\ tryOut = TryNoOut
       IN  TryInit /\ Idle("try")
    /\ [][NextTry]_vars

NextPar ==
    \/ ExecuteInParallelShare /\ UNCHANGED <<wfVars, swVars, tryVars, cmpVars, stVars, forVars, libVars, rootVars, fnVars, dfVars, exVars, psVars, numVars, httpVars, evVars, kcVars, hdVars>>
    \/ ExecuteInParallelGo /\ UNCHANGED <<wfVars, swVars, tryVars, cmpVars, stVars, forVars, libVars, rootVars, fnVars, dfVars, exVars, psVars, numVars, httpVars, evVars, kcVars, hdVars>>
    \/ \E t \in ParTasks : LockSharedVariablesLookup(t) /\ UNCHANGED <<wfVars, swVars, tryVars, cmpVars, stVars, forVars, libVars, rootVars, fnVars, dfVars, exVars, psVars, numVars, httpVars, evVars, kcVars, hdVars>>
    \/ \E t \in ParTasks : LockSharedVariablesAcquire(t) /\ UNCHANGED <<wfVars, swVars, tryVars, cmpVars, stVars, forVars, libVars, rootVars, fnVars, dfVars, exVars, psVars, numVars, httpVars, evVars, kcVars, hdVars>>
    \/ \E t \in ParTasks : AssignStepExecute(t) /\ UNCHANGED <<wfVars, swVars, tryVars, cmpVars, stVars, forVars, libVars, rootVars, fnVars, dfVars, exVars, psVars, numVars, httpVars, evVars, kcVars, hdVars>>
    \/ \E t \in ParTasks : CallStepExecute(t) /\ UNCHANGED <<wfVars, swVars, tryVars, cmpVars, stVars, forVars, libVars, rootVars, fnVars, dfVars, exVars, psVars, numVars, httpVars, evVars, kcVars, hdVars>>
    \/ \E t \in ParTasks : UnlockAndReturn(t) /\ UNCHANGED <<wfVars, swVars, tryVars, cmpVars, stVars, forVars, libVars, rootVars, fnVars, dfVars, exVars, psVars, numVars, httpVars, evVars, kcVars, hdVars>>
    \/ ConcurrentMapAccess /\ UNCHANGED <<wfVars, swVars, tryVars, cmpVars, stVars, forVars, libVars, rootVars, fnVars, dfVars, exVars, psVars, numVars, httpVars, evVars, kcVars, hdVars>>
    \/ ExecuteInParallelWait /\ UNCHANGED <<wfVars, swVars, tryVars, cmpVars, stVars, forVars, libVars, rootVars, fnVars, dfVars, exVars, psVars, numVars, httpVars, evVars, kcVars, hdVars>>

SpecPar ==
    /\ LET
           ParTargets == ParRoots \cup {ParFieldTarget}

           \* The body of the loop is one named step: an assign step whose assignments
           \* are `root: ${root + 1}` (`fresh: 1` for the undefined name, `other.x: 1`
           \* for the field), or a call step with an optional result target.
           ParAssignBodies ==
               [kind : {"assign"}, targets : UNION { [1..n -> ParTargets] : n \in 1..MaxAssigns }]

           ParCallBodies ==
               [kind : {"call"}, targets : {<<>>} \cup { <<r>> : r \in ParTargets }]

           ParSharedLists == {<<>>, <<"counter">>, <<"other">>, <<"counter", "other">>}

           ParDefs == [shared : ParSharedLists, n : 1..MaxTasks, body : ParAssignBodies \cup ParCallBodies]

           ParInit ==
               /\ parDef \in ParDefs
               /\ parPc = "share"
               /\ parOrig = [r \in ParRoots |-> IF r \in ParDefinedRoots THEN ParValue(0) ELSE ParUndef]
               /\ parClone = parOrig
               /\ parShared = [r \in ParRoots |-> "absent"]
               /\ parHandle = [r \in ParRoots |-> [value |-> ParUndef, lockedBy |-> 0]]
               /\ parTask = [t \in ParTasks |-> ParIdleTask]
               /\ parFinished = <<>>
               /\ parErr = 0
       IN  ParInit /\ Idle("par")
    /\ [][NextPar]_vars

NextCompile ==
    \/ WorkflowStepDefCompile /\ UNCHANGED <<wfVars, swVars, tryVars, parVars, stVars, forVars, libVars, rootVars, fnVars, dfVars, exVars, psVars, numVars, httpVars, evVars, kcVars, hdVars>>
    \/ CompiledStepExecute /\ UNCHANGED <<wfVars, swVars, tryVars, parVars, stVars, forVars, libVars, rootVars, fnVars, dfVars, exVars, psVars, numVars, httpVars, evVars, kcVars, hdVars>>

SpecCompile ==
    /\ LET
           CmpFields == CmpFirstLevelFields \cup {"bogus"}

           CmpLeafFields == {"raise", "return", "bogus"}

           \* The JSON under `steps`: no such key, [], [{r: {return: ${e.tags[0]}}}]
           \* (a list of named steps) or [{return: ${e.tags[0]}}].
           CmpStepsKinds == {"absent", "empty", "named return", "anonymous return"}

           \* The string under `as`.
           CmpAsExprs == {"", "e", "e.x"}

           \* The JSON under `retry`: a well-formed policy map, or a number.
           CmpRetryKinds == {"policy", "number"}

           CmpExceptDefs == [as : CmpAsExprs, steps : CmpStepsKinds]

           \* The JSON under `parallel`: exception_policy is absent, "continueAll" or
           \* another string; shared is absent or a list of variable names; `for` and
           \* `branches` are absent or well formed.
           CmpParallelDefs ==
               [exception_policy : {"absent", "continueAll", "unhandled"}, shared : {"absent", "names"},
                for : BOOLEAN, branches : BOOLEAN]

           CmpDefs ==
               { d \in [fields : SUBSET CmpFields, try : SUBSET CmpLeafFields, retry : CmpRetryKinds,
                        except : CmpExceptDefs, parallel : CmpParallelDefs, steps : CmpStepsKinds] :
                   \* a parallel step of the model is combined with steps, return and bogus only
                   /\ "parallel" \in d.fields => d.fields \subseteq {"parallel", "steps", "return", "bogus"}
                   /\ "parallel" \notin d.fields => d.parallel = CmpNoParallel
                   /\ "try" \notin d.fields => d.try = {}
                   /\ "retry" \notin d.fields => d.retry = "policy"
                   /\ "except" \notin d.fields => d.except = CmpNoExcept
                   /\ ("steps" \in d.fields) <=> (d.steps # "absent") }

           CmpInit ==
               /\ cmpDef \in CmpDefs
               /\ cmpPc = "parsed"
               /\ cmpStep = CmpFail("")
               /\ cmpOut = CmpNoOut
       IN  CmpInit /\ Idle("cmp")
    /\ [][NextCompile]_vars

NextSet ==
    \/ SymbolTableSetCall /\ UNCHANGED <<wfVars, swVars, tryVars, parVars, cmpVars, forVars, libVars, rootVars, fnVars, dfVars, exVars, psVars, numVars, httpVars, evVars, kcVars, hdVars>>

SpecSet ==
    /\ LET
           StChains == UNION { [1..n -> StScopes] : n \in 1..MaxScopes }

           StInit ==
               /\ stChain \in StChains
               /\ stPc = "ready"
               /\ stOps = 0
               /\ stLast = StNoCall
       IN  StInit /\ Idle("st")
    /\ [][NextSet]_vars

NextFor ==
    \/ ForEvaluateIn /\ UNCHANGED <<wfVars, swVars, tryVars, parVars, cmpVars, stVars, libVars, rootVars, fnVars, dfVars, exVars, psVars, numVars, httpVars, evVars, kcVars, hdVars>>
    \/ ForNextElement /\ UNCHANGED <<wfVars, swVars, tryVars, parVars, cmpVars, stVars, libVars, rootVars, fnVars, dfVars, exVars, psVars, numVars, httpVars, evVars, kcVars, hdVars>>
    \/ ForStepsWorkflowExecute /\ UNCHANGED <<wfVars, swVars, tryVars, parVars, cmpVars, stVars, libVars, rootVars, fnVars, dfVars, exVars, psVars, numVars, httpVars, evVars, kcVars, hdVars>>

SpecFor ==
    /\ LET
           ForElements == {1, 2, 3}

           \* A body step is an assign step with one assignment,
           \*   "sum" : sum: ${sum + i}     "tmp" : tmp: ${i}     "i" : i: ${i + 1}
           \* and the next-step name its Execute returns ("" when it sets none), or
           \* the return step `return: ${sum}`, whose Execute returns the name "end".
           ForAssigns == {"sum", "tmp", "i"}

           ForNexts == {"", "break", "continue", "end"}

           ForBodySteps == [assign : ForAssigns, next : ForNexts] \cup {ForReturnStep}

           ForBodies == UNION { [1..n -> ForBodySteps] : n \in 1..MaxBodySteps }

           ForIns == UNION { [1..n -> ForElements] : n \in 0..MaxIn }

           ForDefs == [in : ForIns, isList : BOOLEAN, body : ForBodies]

           ForLibraryScope == [syms |-> [k \in ForKeys |-> StAbsent], ro |-> TRUE]

           ForInit ==
               /\ forDef \in ForDefs
               /\ forChain = <<ForEmptyScope, [ForEmptyScope EXCEPT !.syms["sum"] = 0], ForLibraryScope>>
               /\ forPc = "start"
               /\ forI = 0
               /\ forStep = 1
               /\ forTrace = <<>>
               /\ forOut = "nil"
       IN  ForInit /\ Idle("for")
    /\ [][NextFor]_vars

NextLib ==
    \/ LibAssignStepExecute /\ UNCHANGED <<wfVars, swVars, tryVars, parVars, cmpVars, stVars, forVars, rootVars, fnVars, dfVars, exVars, psVars, numVars, httpVars, evVars, kcVars, hdVars>>
    \/ LibWorkflowRootExecute /\ UNCHANGED <<wfVars, swVars, tryVars, parVars, cmpVars, stVars, forVars, rootVars, fnVars, dfVars, exVars, psVars, numVars, httpVars, evVars, kcVars, hdVars>>

SpecLib ==
    /\ LET
           \* defaults.DefaultSymbolTable
           LibraryScope ==
               [syms |-> [k \in LibKeys |-> CASE k = "sys" -> LibSysMap
                                              [] k = "http" -> LibHttpMap
                                              [] OTHER -> StAbsent],
                ro |-> TRUE]

           LibInit ==
               /\ libMaps = [m \in LibMapRefs |-> [f \in LibFields |-> "fn"]]
               /\ libChain = <<LibInvocationScope, LibraryScope>>
               /\ libPc = "running"
               /\ libInv = 1
               /\ libSteps = 0
       IN  LibInit /\ Idle("lib")
    /\ [][NextLib]_vars

NextRoot ==
    \/ WorkflowRootExecute /\ UNCHANGED <<wfVars, swVars, tryVars, parVars, cmpVars, stVars, forVars, libVars, fnVars, dfVars, exVars, psVars, numVars, httpVars, evVars, kcVars, hdVars>>
    \/ RootCallWorkflow /\ UNCHANGED <<wfVars, swVars, tryVars, parVars, cmpVars, stVars, forVars, libVars, fnVars, dfVars, exVars, psVars, numVars, httpVars, evVars, kcVars, hdVars>>
    \/ RootWorkflowReturn /\ UNCHANGED <<wfVars, swVars, tryVars, parVars, cmpVars, stVars, forVars, libVars, fnVars, dfVars, exVars, psVars, numVars, httpVars, evVars, kcVars, hdVars>>

SpecRoot ==
    /\ LET
           RootWorkflowNames == {"a", "b", "c"}

           \* Name of the single parameter of main: none, a name of its own, or the
           \* name of a workflow.
           RootMainParams == {"", "args", "a"}

           RootInit ==
               /\ rootDoc \in [workflows : SUBSET RootWorkflowNames, param : RootMainParams]
               /\ rootPc = "start"
               /\ rootStack = <<>>
               /\ rootScopes = <<>>
               /\ rootLast = RootNoCall
       IN  RootInit /\ Idle("root")
    /\ [][NextRoot]_vars

NextCall ==
    \/ NewFunction /\ UNCHANGED <<wfVars, swVars, tryVars, parVars, cmpVars, stVars, forVars, libVars, rootVars, dfVars, exVars, psVars, numVars, httpVars, evVars, kcVars, hdVars>>
    \/ ReflectFuncCall /\ UNCHANGED <<wfVars, swVars, tryVars, parVars, cmpVars, stVars, forVars, libVars, rootVars, dfVars, exVars, psVars, numVars, httpVars, evVars, kcVars, hdVars>>

SpecCall ==
    /\ LET
           FnParamKinds == {"required", "optional", "default"}

           \* An argument: SubstitutionNone, an explicit null, a value assignable to
           \* the parameter's type, or a value of another type.
           FnArgKinds == {"none", "null", "value", "mistyped"}

           FnSignatures == UNION { [1..n -> FnParamKinds] : n \in 0..MaxParams }

           FnArgLists == UNION { [1..n -> FnArgKinds] : n \in 0..(MaxParams + 1) }

           FnInit ==
               /\ fnParams \in FnSignatures
               /\ fnArgs \in FnArgLists
               /\ fnPc = "declared"
               /\ fnMin = 0
               /\ fnBound = <<>>
               /\ fnErr = ""
       IN  FnInit /\ Idle("fn")
    /\ [][NextCall]_vars

NextDefault ==
    \/ DfCallOmittingArgument /\ UNCHANGED <<wfVars, swVars, tryVars, parVars, cmpVars, stVars, forVars, libVars, rootVars, fnVars, exVars, psVars, numVars, httpVars, evVars, kcVars, hdVars>>
    \/ DfCalleeSetsCell /\ UNCHANGED <<wfVars, swVars, tryVars, parVars, cmpVars, stVars, forVars, libVars, rootVars, fnVars, exVars, psVars, numVars, httpVars, evVars, kcVars, hdVars>>

SpecDefault ==
    /\ LET
           DfFunctions == [kind : {"reflect", "raw"}, default : {"list", "map"}]

           DfInit ==
               /\ dfFn \in DfFunctions
               /\ dfPc = "ready"
               /\ dfDeclared = DfInitial
               /\ dfReceived = <<>>
               /\ dfSeen = <<>>
       IN  DfInit /\ Idle("df")
    /\ [][NextDefault]_vars

NextExpr ==
    \/ ExecuteLeft /\ UNCHANGED <<wfVars, swVars, tryVars, parVars, cmpVars, stVars, forVars, libVars, rootVars, fnVars, dfVars, psVars, numVars, httpVars, evVars, kcVars, hdVars>>
    \/ ExecuteRight /\ UNCHANGED <<wfVars, swVars, tryVars, parVars, cmpVars, stVars, forVars, libVars, rootVars, fnVars, dfVars, psVars, numVars, httpVars, evVars, kcVars, hdVars>>
    \/ Calculate /\ UNCHANGED <<wfVars, swVars, tryVars, parVars, cmpVars, stVars, forVars, libVars, rootVars, fnVars, dfVars, psVars, numVars, httpVars, evVars, kcVars, hdVars>>

SpecExpr ==
    /\ LET
           ExOperators == {"==", "!=", "+", "-", "*", "/", "//", "%"}

           ExInts == {-7, -1, 0, 2, 7}

           ExLiterals ==
               {ExNil} \cup {ExInt(n) : n \in ExInts} \cup {ExFloat(0, 1), ExFloat(-3, 2), ExFloat(5, 2)}
                 \cup {ExBool(TRUE), ExString("foo")}

           (* values that only a variable or a function result can hold *)
           ExHeld ==
               {ExContainer(t, n) : t \in {"*T", "map[string]any", "[]any"}, n \in BOOLEAN}

           (* an operand operation: a literal, a symbol holding a value, or a call of *)
           (* a function returning it                                                 *)
           ExOperandOps ==
               [via : {"literal"}, value : ExLiterals]
                 \cup [via : {"symbol", "call"}, value : {ExNil, ExInt(7), ExFloat(5, 2)} \cup ExHeld]

           ExInit ==
               /\ exArch \in ExArchs
               /\ exOp \in ExOperators
               /\ exOperands \in [1..2 -> ExOperandOps]
               /\ exPc = "left"
               /\ exLeft = ExNoValue
               /\ exRight = ExNoValue
               /\ exRet = ExNoValue
       IN  ExInit /\ Idle("ex")
    /\ [][NextExpr]_vars

NextParse ==
    \/ ParseExpr /\ UNCHANGED <<wfVars, swVars, tryVars, parVars, cmpVars, stVars, forVars, libVars, rootVars, fnVars, dfVars, exVars, numVars, httpVars, evVars, kcVars, hdVars>>
    \/ EvaluateValue /\ UNCHANGED <<wfVars, swVars, tryVars, parVars, cmpVars, stVars, forVars, libVars, rootVars, fnVars, dfVars, exVars, numVars, httpVars, evVars, kcVars, hdVars>>

SpecParse ==
    /\ LET
           PsOperatorChars(op) == IF op = "//" THEN <<"/", "/">> ELSE <<op>>

           PsLiterals ==
               {[chars |-> <<"0">>, n |-> 0], [chars |-> <<"1">>, n |-> 1], [chars |-> <<"2">>, n |-> 2],
                [chars |-> <<"3">>, n |-> 3], [chars |-> <<"1", "2">>, n |-> 12]}

           PsOperators == {"+", "-", "*", "//"}

           PsForms == [shape : PsShapes, a : PsLiterals, b : PsLiterals, c : PsLiterals, op1 : PsOperators, op2 : PsOperators]

           PsRender(f) ==
               CASE f.shape = "flat" ->
                       f.a.chars \o PsOperatorChars(f.op1) \o f.b.chars \o PsOperatorChars(f.op2) \o f.c.chars
                 [] f.shape = "left" ->
                       <<"(">> \o f.a.chars \o PsOperatorChars(f.op1) \o f.b.chars \o <<")">> \o PsOperatorChars(f.op2) \o f.c.chars
                 [] OTHER ->
                       f.a.chars \o PsOperatorChars(f.op1) \o <<"(">> \o f.b.chars \o PsOperatorChars(f.op2) \o f.c.chars \o <<")">>

           PsOtherSources ==
               {PsExample, PsExampleCompact, <<>>, <<"1", " ", "2">>, <<"-", "1", "+", "2">>, <<"-", "-", "1">>, <<"(", "1", "+", "2">>,
                <<"1", "(", "2", ")">>, <<"1", "(", ")">>, <<"1", "+">>, <<"*", "1">>, <<"1", "2", "%", "5">>, <<"1", "/", "0">>}

           PsInputs ==
               {[form |-> f, source |-> PsRender(f)] : f \in PsForms}
                 \cup {[form |-> PsNoForm, source |-> s] : s \in PsOtherSources}

           PsInit ==
               /\ psArch \in ExArchs
               /\ psInput \in PsInputs
               /\ psPc = "source"
               /\ psOperation = PsNoOpe
               /\ psRet = ExNoValue
       IN  PsInit /\ Idle("ps")
    /\ [][NextParse]_vars

NextNumber ==
    \/ DecodeJSONNumber /\ UNCHANGED <<wfVars, swVars, tryVars, parVars, cmpVars, stVars, forVars, libVars, rootVars, fnVars, dfVars, exVars, psVars, httpVars, evVars, kcVars, hdVars>>

SpecNumber ==
    /\ LET
           \* The numbers of the documents: an optional minus sign, an integer part, an
           \* optional fraction and an optional exponent.
           NumIntParts ==
               { <<"0">>, <<"7">>, <<"1", "2">>, NumMaxInt64, NumMinInt64,
                 <<"9", "9", "9", "9", "9", "9", "9", "9", "9", "9", "9", "9", "9", "9", "9", "9", "9", "9", "9", "9">> }

           NumFractions == { <<>>, <<".", "0">>, <<".", "5">> }

           NumExponents == { <<>>, <<"e", "2">>, <<"E", "9", "9", "9">> }

           NumTexts ==
               { s \o i \o f \o e : s \in {<<>>, <<"-">>}, i \in NumIntParts, f \in NumFractions,
                                    e \in NumExponents }

           NumInit ==
               /\ numText \in NumTexts
               /\ numPc = "number"
               /\ numRet = NumNoValue
       IN  NumInit /\ Idle("num")
    /\ [][NextNumber]_vars

NextServer ==
    \/ EditDocument /\ UNCHANGED <<wfVars, swVars, tryVars, parVars, cmpVars, stVars, forVars, libVars, rootVars, fnVars, dfVars, exVars, psVars, numVars, evVars, kcVars, hdVars>>
    \/ NewHTTPHandler /\ UNCHANGED <<wfVars, swVars, tryVars, parVars, cmpVars, stVars, forVars, libVars, rootVars, fnVars, dfVars, exVars, psVars, numVars, evVars, kcVars, hdVars>>
    \/ ReloadLoader /\ UNCHANGED <<wfVars, swVars, tryVars, parVars, cmpVars, stVars, forVars, libVars, rootVars, fnVars, dfVars, exVars, psVars, numVars, evVars, kcVars, hdVars>>
    \/ ReloadStore /\ UNCHANGED <<wfVars, swVars, tryVars, parVars, cmpVars, stVars, forVars, libVars, rootVars, fnVars, dfVars, exVars, psVars, numVars, evVars, kcVars, hdVars>>
    \/ (\E e \in HttpExecutions : CreateExecution(e)) /\ UNCHANGED <<wfVars, swVars, tryVars, parVars, cmpVars, stVars, forVars, libVars, rootVars, fnVars, dfVars, exVars, psVars, numVars, evVars, kcVars, hdVars>>
    \/ (\E e \in HttpExecutions : ExecuteLoad(e)) /\ UNCHANGED <<wfVars, swVars, tryVars, parVars, cmpVars, stVars, forVars, libVars, rootVars, fnVars, dfVars, exVars, psVars, numVars, evVars, kcVars, hdVars>>
    \/ (\E e \in HttpExecutions : ExecuteStep(e)) /\ UNCHANGED <<wfVars, swVars, tryVars, parVars, cmpVars, stVars, forVars, libVars, rootVars, fnVars, dfVars, exVars, psVars, numVars, evVars, kcVars, hdVars>>

SpecServer ==
    /\ LET
           HttpNoExecution == [state |-> "", root |-> 0, ran |-> <<>>]

           HttpInit ==
               /\ httpFile = [version |-> 1, valid |-> TRUE]
               /\ httpRoot = 0
               /\ httpLoaded = 0
               /\ httpEx = [e \in HttpExecutions |-> HttpNoExecution]
       IN  HttpInit /\ Idle("http")
    /\ [][NextServer]_vars

NextEvents ==
    \/ (\E r \in EvRequests : ServeRequest(r)) /\ UNCHANGED <<wfVars, swVars, tryVars, parVars, cmpVars, stVars, forVars, libVars, rootVars, fnVars, dfVars, exVars, psVars, numVars, httpVars, kcVars, hdVars>>
    \/ (\E r \in EvRequests : HandlerSwap(r)) /\ UNCHANGED <<wfVars, swVars, tryVars, parVars, cmpVars, stVars, forVars, libVars, rootVars, fnVars, dfVars, exVars, psVars, numVars, httpVars, kcVars, hdVars>>
    \/ (\E r \in EvRequests : HandlerBody(r)) /\ UNCHANGED <<wfVars, swVars, tryVars, parVars, cmpVars, stVars, forVars, libVars, rootVars, fnVars, dfVars, exVars, psVars, numVars, httpVars, kcVars, hdVars>>
    \/ AwaitCallback /\ UNCHANGED <<wfVars, swVars, tryVars, parVars, cmpVars, stVars, forVars, libVars, rootVars, fnVars, dfVars, exVars, psVars, numVars, httpVars, kcVars, hdVars>>
    \/ (\E r \in EvRequests : AwaitReceive(r)) /\ UNCHANGED <<wfVars, swVars, tryVars, parVars, cmpVars, stVars, forVars, libVars, rootVars, fnVars, dfVars, exVars, psVars, numVars, httpVars, kcVars, hdVars>>
    \/ AwaitTimeout /\ UNCHANGED <<wfVars, swVars, tryVars, parVars, cmpVars, stVars, forVars, libVars, rootVars, fnVars, dfVars, exVars, psVars, numVars, httpVars, kcVars, hdVars>>
    \/ (\E r \in EvRequests : HandlerSendClosed(r)) /\ UNCHANGED <<wfVars, swVars, tryVars, parVars, cmpVars, stVars, forVars, libVars, rootVars, fnVars, dfVars, exVars, psVars, numVars, httpVars, kcVars, hdVars>>

SpecEvents ==
    /\ LET
           \* a request with another method than http_callback_method; one with the
           \* method and a body that is not JSON under a JSON content type; one with
           \* the method and a well-formed body
           EvKinds == {"wrong method", "malformed", "valid"}

           EvInit ==
               /\ evKinds \in [EvRequests -> EvKinds]
               /\ evReqs = [r \in EvRequests |-> [pc |-> "absent", resp |-> ""]]
               /\ evReceived = FALSE
               /\ evAwait = "created"
               /\ evRet = EvNoRet
       IN  EvInit /\ Idle("ev")
    /\ [][NextEvents]_vars

NextKeys ==
    \/ KeysChan /\ UNCHANGED <<wfVars, swVars, tryVars, parVars, cmpVars, stVars, forVars, libVars, rootVars, fnVars, dfVars, exVars, psVars, numVars, httpVars, evVars, hdVars>>
    \/ ExecuteInParallelRange /\ UNCHANGED <<wfVars, swVars, tryVars, parVars, cmpVars, stVars, forVars, libVars, rootVars, fnVars, dfVars, exVars, psVars, numVars, httpVars, evVars, hdVars>>
    \/ KeysChanReturn /\ UNCHANGED <<wfVars, swVars, tryVars, parVars, cmpVars, stVars, forVars, libVars, rootVars, fnVars, dfVars, exVars, psVars, numVars, httpVars, evVars, hdVars>>

SpecKeys ==
    /\ LET
           KcChains == UNION { [1..n -> SUBSET StKeys] : n \in 1..MaxScopes }

           KcInit ==
               /\ kcChain \in KcChains
               /\ kcScope = 0
               /\ kcLeft = {}
               /\ kcClosed = FALSE
               /\ kcKeys = <<>>
               /\ kcPc = "clone"
       IN  KcInit /\ Idle("kc")
    /\ [][NextKeys]_vars

NextHandler ==
    \/ ExceptStepExecute /\ UNCHANGED <<wfVars, swVars, tryVars, parVars, cmpVars, stVars, forVars, libVars, rootVars, fnVars, dfVars, exVars, psVars, numVars, httpVars, evVars, kcVars>>
    \/ HandlerAssignStep /\ UNCHANGED <<wfVars, swVars, tryVars, parVars, cmpVars, stVars, forVars, libVars, rootVars, fnVars, dfVars, exVars, psVars, numVars, httpVars, evVars, kcVars>>
    \/ ExceptStepReturn /\ UNCHANGED <<wfVars, swVars, tryVars, parVars, cmpVars, stVars, forVars, libVars, rootVars, fnVars, dfVars, exVars, psVars, numVars, httpVars, evVars, kcVars>>

SpecHandler ==
    /\ LET
           HdChains == [1..1 -> StScopes] \cup [1..2 -> StScopes]

           HdSteps == [key : StKeys, value : StValues]

           HdDefs == [as : StKeys, steps : UNION { [1..n -> HdSteps] : n \in 0..MaxHandlerSteps }]

           HdInit ==
               /\ hdChain \in HdChains
               /\ hdOrig = hdChain
               /\ hdClone = HdNoScope
               /\ hdDef \in HdDefs
               /\ hdStep = 1
               /\ hdPc = "caught"
       IN  HdInit /\ Idle("hd")
    /\ [][NextHandler]_vars

(***************************************************************************)
(* Claims                                                                  *)
(***************************************************************************)

\* The next-step name step i of the document hands to Workflow.Execute: the
\* one its wrapped step returns, or its successor in document order.
C9_Effective(i) ==
    IF wfDoc[i].next # "" THEN wfDoc[i].next
    ELSE IF i < Len(wfDoc) THEN wfDoc[i + 1].name ELSE "end"

C9_Step ==
    LET i == wfCur
        e == C9_Effective(i)
        isName == \E j \in 1..Len(wfDoc) : wfDoc[j].name = e
    IN  /\ wfTrace' = Append(wfTrace, i)
        /\ wfDoc[i].err =>
               /\ wfPc' = "done"
               /\ wfErr' = [kind |-> "step error", at |-> wfDoc[i].name]
               /\ wfRet' = "nil"
        /\ ~wfDoc[i].err /\ e = "end" =>
               /\ wfPc' = "done"
               /\ wfErr' = NoErr
               /\ wfRet' = wfDoc[i].ret
        /\ ~wfDoc[i].err /\ e = "" =>
               /\ wfPc' = "done"
               /\ wfErr' = [kind |-> "next step is not defined", at |-> wfDoc[i].name]
               /\ wfRet' = "nil"
        /\ ~wfDoc[i].err /\ e \notin {"end", ""} /\ ~isName =>
               /\ wfPc' = "done"
               /\ wfErr' = [kind |-> "not found", at |-> e]
               /\ wfRet' = "nil"
        /\ ~wfDoc[i].err /\ e \notin {"end", ""} /\ isName =>
               /\ wfPc' = "loop"
               /\ wfDoc[wfCur'].name = e
               /\ wfErr' = NoErr

\* C9: Workflow.Execute starts at the entry step; after each step "end" ends
\* the invocation with the step's value, "" fails with "next step is not
\* defined", a name missing from the step map fails with "not found", any
\* other name makes that step the next one executed; a step error ends the
\* invocation with that error prefixed by the step name; once the invocation
\* has ended no further step runs.
C9_StepLoop ==
    /\ [](wfPc = "loop" /\ wfTrace = <<>> => wfCur = 1)
    /\ [][wfPc = "loop" /\ wfTrace' # wfTrace => C9_Step]_vars
    /\ [][wfPc = "done" => wfPc' = "done" /\ wfTrace' = wfTrace /\ wfRet' = wfRet /\ wfErr' = wfErr]_vars

\* A step without a successor of its own fell through to the next step of
\* the document, which ended the invocation with its value.
C9_Witness ==
    /\ wfPc = "done"
    /\ wfTrace = <<1, 2>>
    /\ wfDoc[1].next = ""
    /\ wfErr = NoErr
    /\ wfRet = wfDoc[2].ret

C8_FirstTrue(conds) ==
    IF \E i \in 1..Len(conds) : conds[i].cond = "T"
    THEN CHOOSE i \in 1..Len(conds) :
             conds[i].cond = "T" /\ \A j \in 1..(i - 1) : conds[j].cond # "T"
    ELSE 0

C8_NoErrorBefore(conds, k) == \A j \in 1..k : conds[j].cond # "E"

\* C8: switchStep.Execute evaluates the conditions in document order and
\* executes the body of the first condition that is true, returning that
\* body's value and next step; no later condition is evaluated and no other
\* body runs; when no condition is true it runs the default branch if there
\* is one, otherwise it falls through with an empty next step.
C8_FirstTruthyWins ==
    swPc = "done" =>
        LET n == Len(swConds)
            t == C8_FirstTrue(swConds)
        IN  /\ t > 0 /\ C8_NoErrorBefore(swConds, t) =>
                   /\ swEvaluated = [k \in 1..t |-> k]
                   /\ swRan = <<t>>
                   /\ swOut = SwBodyExecute(t, swDoc[t].body)
            /\ t = 0 /\ C8_NoErrorBefore(swConds, n) =>
                   /\ swEvaluated = [k \in 1..n |-> k]
                   /\ IF Len(swDoc) > n
                      THEN /\ swRan = <<0>>
                           /\ swOut = SwBodyExecute(0, swDoc[n + 1].body)
                      ELSE /\ swRan = <<>>
                           /\ swOut.next = ""
                           /\ swOut.err = "nil"

\* Two conditions are true: the first one was executed, the second one was
\* not even evaluated.
C8_Witness ==
    /\ swPc = "done"
    /\ Len(swConds) >= 2
    /\ swConds[1].cond = "T"
    /\ swConds[2].cond = "T"
    /\ swEvaluated = <<1>>
    /\ swRan = <<1>>

\* No condition is true and a non-boolean value came first: the default ran.
C8_WitnessDefault ==
    /\ swPc = "done"
    /\ Len(swConds) >= 1
    /\ swConds[1].cond = "N"
    /\ swRan = <<0>>

C4_LastRun == tryRuns[Len(tryRuns)]

C4_HasException(err) == \E i \in 1..Len(err) : err[i] \in {"excA", "excB"}

C4_Applies ==
    /\ tryDef.retry = "policy"
    /\ tryDef.max_retries >= 1
    /\ tryDef.predicate = "always"
    /\ \A k \in 1..Len(tryRuns) : C4_HasException(tryRuns[k].err)

\* C4: with max_retries = n >= 1 and a predicate that is always true, a body
\* that raises an Exception on every execution runs exactly n+1 times with
\* exactly n backoff sleeps in between, and is not executed again.
C4_RunsBodyNPlusOneTimes ==
    C4_Applies =>
        /\ Len(tryRuns) <= tryDef.max_retries + 1
        /\ Len(trySleeps) <= tryDef.max_retries
        /\ tryPc = "done" =>
               /\ Len(tryRuns) = tryDef.max_retries + 1
               /\ Len(trySleeps) = tryDef.max_retries
               /\ tryPreds = tryDef.max_retries

\* max_retries = 3: four runs of the body, three sleeps.
C4_Witness ==
    /\ tryPc = "done"
    /\ C4_Applies
    /\ tryDef.max_retries = 3
    /\ Len(tryRuns) = 4
    /\ Len(trySleeps) = 3

\* C5: an Exception of the body that is not retried is returned unchanged
\* when the try step has no except; with an except, the handler runs exactly
\* once and its (value, next step, error) is the outcome of the try step.
C5_NotRetriedException ==
    /\ Len(tryHandled) <= 1
    /\ tryPc = "done" /\ tryRuns # <<>> /\ C4_HasException(C4_LastRun.err) =>
           IF tryDef.except
           THEN /\ Len(tryHandled) = 1
                /\ tryOut = tryHandled[1]
           ELSE /\ tryHandled = <<>>
                /\ tryOut.err = C4_LastRun.err
                /\ tryOut.next = ""

\* The predicate refused a retry while retries remained, and the handler ran.
C5_Witness ==
    /\ tryPc = "done"
    /\ tryDef.except
    /\ tryRetry.present
    /\ tryRetry.restRetries > 0
    /\ tryPreds >= 1
    /\ Len(tryHandled) = 1
    /\ tryOut = tryHandled[1]
    /\ tryOut.next = "end"

\* C6: a body error without an Exception in its cause chain is returned at
\* once: no predicate evaluation, no sleep, no further run of the body and no
\* run of the except handler follow it.
C6_HostErrorPropagates ==
    tryRuns # <<>> /\ C4_LastRun.err # <<>> /\ ~C4_HasException(C4_LastRun.err) =>
        /\ tryPc = "done"
        /\ tryOut.err = C4_LastRun.err
        /\ tryHandled = <<>>
        /\ tryPreds = Len(tryRuns) - 1
        /\ Len(trySleeps) = Len(tryRuns) - 1

\* A host error on the second run of a try step that has retries left and an
\* except handler.
C6_Witness ==
    /\ tryPc = "done"
    /\ Len(tryRuns) = 2
    /\ C4_LastRun.err = <<"plain", "plain">>
    /\ tryDef.except
    /\ tryRetry.restRetries > 0
    /\ tryOut.err = <<"plain", "plain">>

\* C7: with backoff {initial_delay d, max_delay M, multiplier m} the first
\* sleep lasts d, every later sleep lasts the previous one times m capped at
\* M, and the delay carried to the next retry never exceeds M.
C7_BackoffDelays ==
    tryDef.retry = "policy" /\ tryDef.backoff.present =>
        LET d == (tryDef.backoff.initial_delay * Second) \div 4
            M == (tryDef.backoff.max_delay * Second) \div 4
            m == tryDef.backoff.multiplier
        IN  /\ trySleeps # <<>> => trySleeps[1] = d
            /\ \A k \in 1..(Len(trySleeps) - 1) :
                   trySleeps[k + 1] = Min((trySleeps[k] * m) \div 4, M)
            /\ trySleeps # <<>> => tryRetry.delay <= M

(***************************************************************************)
(* Claims about the parallel for (SpecPar)                                 *)
(***************************************************************************)

C2_FailedTasks == { t \in 1..parDef.n : parTask[t].pc = "failed" }

C2_AtReturn ==
    parPc = "returned" =>
        /\ \A t \in 1..parDef.n :
              /\ parTask[t].pc \in {"done", "failed"}
              /\ \E i \in 1..Len(parFinished) : parFinished[i] = t
              /\ (parTask[t].pc = "done" /\ parDef.body.kind = "assign")
                    => Len(parTask[t].writes) = Len(parDef.body.targets)
        /\ C2_FailedTasks # {} => parErr \in C2_FailedTasks
        /\ C2_FailedTasks = {} => parErr = 0

C2_FailureLeavesOthersAlone ==
    \A t \in ParTasks :
        (parTask[t].pc # "failed" /\ parTask'[t].pc = "failed")
            => /\ parPc' = parPc
               /\ \A u \in ParTasks \ {t} : parTask'[u] = parTask[u]

C25_Finished(t) == parTask[t].pc \in {"done", "failed"}

C26_RepeatedSharedRoot ==
    /\ parDef.body.kind = "assign"
    /\ Len(parDef.body.targets) = 2
    /\ parDef.body.targets[1] = parDef.body.targets[2]
    /\ parDef.body.targets[1] \in ParRoots
    /\ parPc # "share"
    /\ parShared[parDef.body.targets[1]] = "true"

C27_DistinctRoots ==
    /\ \A i \in 1..Len(parDef.body.targets) : parDef.body.targets[i] \in ParRoots
    /\ \A i, j \in 1..Len(parDef.body.targets) :
          parDef.body.targets[i] = parDef.body.targets[j] => i = j

C10_IsTryExcept ==
    /\ cmpDef.fields = {"try", "except"}
    /\ cmpDef.try = {"raise"}
    /\ cmpDef.except = [as |-> "e", steps |-> "named return"]

\* C10: the step `try: {raise: <map>}` with `except: {as: e, steps: [...]}`
\* compiles, and executing it returns the first tag of the raised map.
C10_TryExceptReturnsTag ==
    C10_IsTryExcept =>
        /\ cmpPc \in {"parsed", "compiled", "done"}
        /\ cmpPc = "done" => cmpOut = [kind |-> "ret", value |-> CmpFirstTag, next |-> "end"]

C21_IsBranches ==
    /\ cmpDef.fields = {"parallel"}
    /\ cmpDef.parallel.branches
    /\ ~cmpDef.parallel.for

C12_Nearest(chain, k) ==
    IF \E i \in 1..Len(chain) : chain[i].syms[k] # StAbsent
    THEN CHOOSE i \in 1..Len(chain) :
            /\ chain[i].syms[k] # StAbsent
            /\ \A j \in 1..(i - 1) : chain[j].syms[k] = StAbsent
    ELSE 0

\* Index of the nearest scope that holds k and is not read-only, 0 when none.
C12_NearestWritable(chain, k) ==
    IF \E i \in 1..Len(chain) : chain[i].syms[k] # StAbsent /\ ~chain[i].ro
    THEN CHOOSE i \in 1..Len(chain) :
            /\ chain[i].syms[k] # StAbsent /\ ~chain[i].ro
            /\ \A j \in 1..(i - 1) : chain[j].syms[k] = StAbsent \/ chain[j].ro
    ELSE 0

C12_Outcome(n) ==
    LET before == stLast.chain
        target == IF n # 0 THEN n ELSE 1
    IN  IF before[target].ro
        THEN stPc = "panicked" /\ stChain = before
        ELSE /\ stPc = "ready"
             /\ stChain = [before EXCEPT ![target].syms[stLast.key] = stLast.value]

\* C12 as stated: Set(k, v) replaces the binding in the nearest scope that
\* holds k and changes no other scope; with no such scope it creates k in the
\* current scope; when the scope to write is read-only it fails fatally and
\* changes nothing.
C12_SetNearestScope ==
    stOps > 0 => C12_Outcome(C12_Nearest(stLast.chain, stLast.key))

\* C12 amended: Set(k, v) replaces the binding in the nearest scope that
\* holds k and is not read-only (read-only scopes are passed over) and
\* changes no other scope; with no such scope it creates k in the current
\* scope, or fails fatally and changes nothing when the current scope is
\* read-only.
C12_SetNearestWritableScope ==
    stOps > 0 => C12_Outcome(C12_NearestWritable(stLast.chain, stLast.key))

C12_Witness ==
    /\ stOps > 0
    /\ stPc = "ready"
    /\ Len(stLast.chain) >= 2
    /\ stLast.chain[1].syms[stLast.key] = StAbsent
    /\ stLast.chain[2].syms[stLast.key] # StAbsent
    /\ ~stLast.chain[2].ro
    /\ stChain[2].syms[stLast.key] = stLast.value
    /\ stChain[2].syms[stLast.key] # stLast.chain[2].syms[stLast.key]

(***************************************************************************)
(* Claims about the serial for (SpecFor)                                   *)
(***************************************************************************)
RECURSIVE C11_Sum(_)

C11_Sum(q) == IF q = <<>> THEN 0 ELSE q[1] + C11_Sum(Tail(q))

C11_PlainBody == \A s \in 1..Len(forDef.body) : forDef.body[s].next \in {"", "continue"}

\* C11: a serial for runs its body once per element of `in`, in list order,
\* with the loop variable bound to the element in a child scope; an
\* assignment of the body to a variable of the enclosing scope updates the
\* enclosing variable, so the body `sum: ${sum + i}` leaves sum = initial
\* value + the sum of the elements after the loop.
C11_SerialFor ==
    /\ (forPc = "done" /\ forDef.isList /\ C11_PlainBody)
          => forOut = "nil" /\ forTrace = forDef.in
    /\ forPc \in {"next", "body", "done"} =>
          /\ forChain[1].syms["sum"] = StAbsent
          /\ forTrace = SubSeq(forDef.in, 1, forI)
    /\ (forPc = "done" /\ forDef.isList /\ forDef.body = <<[assign |-> "sum", next |-> ""]>>)
          => forChain[2].syms["sum"] = C11_Sum(forDef.in)

C11_Witness ==
    /\ forPc = "done"
    /\ forDef.isList
    /\ forDef.in = <<1, 2, 3>>
    /\ forDef.body = <<[assign |-> "sum", next |-> ""]>>
    /\ forChain[2].syms["sum"] = 6

\* the step executed last in the body was the return step
C29_ReturnExecuted ==
    /\ forPc = "done"
    /\ forI >= 1
    /\ forDef.body[forStep] = ForReturnStep

\* C29: a return step executed in the body of a serial for ends the loop
\* without an error, so that the enclosing workflow returns the value; no
\* later iteration runs.
C29_ReturnInsideFor ==
    C29_ReturnExecuted =>
        /\ forOut = "nil"
        /\ forTrace = SubSeq(forDef.in, 1, forI)

(***************************************************************************)
(* Claims about the standard library scope (SpecLib)                       *)
(***************************************************************************)
\* C13: whatever assign steps ran (to a bare standard-library name or to a
\* field path rooted in one), every standard-library path resolves, in this
\* and in every later invocation, to the library value it had before.

C13_LibraryReadOnly ==
    libPc = "running" =>
        \A root \in {"sys", "http"}, field \in LibFields :
            LibResolveValue(libMaps, libChain, root, field) = "fn"

(***************************************************************************)
(* Claims about WorkflowRoot.Execute (SpecRoot)                            *)
(***************************************************************************)
\* C14: in every invocation, of main or of a sub-workflow at any depth, the
\* name of every workflow other than main resolves to a callable function;
\* no call of such a name fails to find it.
\* (Checked for documents whose main has no parameter named like a workflow.)

C14_SubWorkflowsCallable ==
    rootDoc.param \notin rootDoc.workflows =>
        /\ rootLast.callee # "" => rootLast.found
        /\ \A i \in 1..Len(rootScopes) : rootDoc.workflows \subseteq rootScopes[i]

(***************************************************************************)
(* Claims about reflectFunc.Call (SpecCall)                                *)
(***************************************************************************)
\* Number of required parameters before the first one that is not required.

C15_LeadingRequired ==
    IF \E i \in 1..Len(fnParams) : fnParams[i] # "required"
    THEN (CHOOSE i \in 1..Len(fnParams) :
             /\ fnParams[i] # "required"
             /\ \A j \in 1..(i - 1) : fnParams[j] = "required") - 1
    ELSE Len(fnParams)

C15_Unfilled(i) == i > Len(fnArgs) \/ fnArgs[i] = "none"

\* C15: Call with n arguments is rejected when n exceeds the number of
\* parameters or is below the number of leading required parameters;
\* otherwise a missing or SubstitutionNone position is bound to the declared
\* default (the zero value for an optional parameter), the call fails when
\* such a position has neither, and an explicit null is bound to the zero
\* value of the parameter's type, never to the default.
C15_CallBindsArguments ==
    fnPc = "called" =>
        /\ Len(fnArgs) > Len(fnParams) => fnErr = "too many arguments"
        /\ Len(fnArgs) < C15_LeadingRequired => fnErr = "missing arguments"
        /\ (Len(fnArgs) <= Len(fnParams) /\ Len(fnArgs) >= C15_LeadingRequired) =>
              /\ (\E i \in 1..Len(fnParams) : C15_Unfilled(i) /\ fnParams[i] = "required")
                    => fnErr # ""
              /\ fnErr \notin {"too many arguments", "missing arguments"}
              /\ \A i \in 1..Len(fnBound) :
                    /\ (C15_Unfilled(i) /\ fnParams[i] = "default") => fnBound[i] = "default"
                    /\ (C15_Unfilled(i) /\ fnParams[i] = "optional") => fnBound[i] = "zero"
                    /\ (~C15_Unfilled(i) /\ fnArgs[i] = "null") => fnBound[i] = "zero"
              /\ fnErr = "" => Len(fnBound) = Len(fnParams)

C15_Witness ==
    /\ fnPc = "called"
    /\ fnErr = ""
    /\ fnParams = <<"required", "default", "optional">>
    /\ fnArgs = <<"value", "null">>
    /\ fnBound = <<"value", "zero", "zero">>

(***************************************************************************)
(* Claims about list and map defaults (SpecDefault)                        *)
(***************************************************************************)
\* C16: every call that omits an argument with a list or map default gets a
\* copy of its own: whatever a call does to the value it received, the
\* declared default keeps its contents and a later call receives them.

C16_DefaultNotShared ==
    dfPc = "ready" =>
        /\ dfDeclared = DfInitial
        /\ \A c \in 1..Len(dfSeen) : dfSeen[c] = DfInitial

(***************************************************************************)
(* Claims about binary operators (SpecExpr)                                *)
(***************************************************************************)

C17_NilShaped(v) ==
    v.type = "nil" \/ (v.type \in {"*T", "map[string]any", "[]any"} /\ v.isnil)

\* C17: for == and != with at least one nil-shaped operand, == is true
\* exactly when both operands are nil-shaped and != is true exactly when
\* they are not both nil-shaped, whatever the type of the other operand and
\* whether the null is a literal, a variable or the result of a call.
C17_NullEquality ==
    (exPc = "done" /\ exOp \in {"==", "!="} /\ (C17_NilShaped(exLeft) \/ C17_NilShaped(exRight))) =>
        exRet = ExBool((exOp = "==") = (C17_NilShaped(exLeft) /\ C17_NilShaped(exRight)))

C17_Witness ==
    /\ exPc = "done"
    /\ exOp = "!="
    /\ exLeft = ExContainer("[]any", FALSE)
    /\ exOperands[2].via = "call"
    /\ exRight = ExNil
    /\ exRet = ExBool(TRUE)

C18_Floor(a, b) ==
    CHOOSE q \in -8..8 :
        IF b > 0 THEN q * b <= a /\ a < (q + 1) * b ELSE q * b >= a /\ a > (q + 1) * b

\* C18: for int64 operands a and b with b # 0, a // b is the int64
\* floor(a / b), rounding toward negative infinity.
C18_FloorDivision ==
    (exPc = "done" /\ exOp = "//" /\ exLeft.type = "int64" /\ exRight.type = "int64" /\ exRight.num # 0) =>
        exRet = ExInt(C18_Floor(exLeft.num, exRight.num))

C19_DividesByZero ==
    /\ exRight.type \in {"int64", "float64"}
    /\ exRight.num = 0
    /\ \/ exLeft.type = "int64" /\ exRight.type = "int64" /\ exOp \in {"/", "//", "%"}
       \/ exLeft.type = "float64" /\ exOp = "//"

\* C19: a / 0, a // 0 and a % 0 for an int64 a, and x // 0 for a float64 x,
\* return an error tagged ZeroDivisionError: no number, no other error, no
\* panic.
C19_ZeroDivisionError ==
    (exPc = "done" /\ C19_DividesByZero) => exRet = ExError(ZeroDivisionErrorTag)

(***************************************************************************)
(* Claims about the expression parser (SpecParse)                          *)
(***************************************************************************)

C20_Binds(op) == IF op \in {"*", "//"} THEN 2 ELSE 1

C20_Apply(op, l, r) ==
    IF l.type # "int64" THEN l ELSE IF r.type # "int64" THEN r ELSE IntArith(op, l, r)

C20_Grouped(f) ==
    IF f.shape = "left" \/ (f.shape = "flat" /\ C20_Binds(f.op2) <= C20_Binds(f.op1))
    THEN C20_Apply(f.op2, C20_Apply(f.op1, ExInt(f.a.n), ExInt(f.b.n)), ExInt(f.c.n))
    ELSE C20_Apply(f.op1, ExInt(f.a.n), C20_Apply(f.op2, ExInt(f.b.n), ExInt(f.c.n)))

\* C20: for integer literals a, b, c and operators among + - * //, the
\* source "a op1 b op2 c" parses and evaluates with the tighter operator
\* applied first and equal binding powers grouped to the left, parentheses
\* group their contents first, and "1 + 2 - 3 * 4 // 5" evaluates to the
\* int64 1.
C20_PrecedenceAndAssociativity ==
    /\ (psInput.form.shape \in PsShapes \/ psInput.source \in {PsExample, PsExampleCompact}) => psPc # "failed"
    /\ (psPc = "done" /\ psInput.form.shape \in PsShapes) => psRet = C20_Grouped(psInput.form)
    /\ (psPc = "done" /\ psInput.source \in {PsExample, PsExampleCompact}) => psRet = ExInt(1)

C20_Witness ==
    /\ psPc = "done"
    /\ psInput.source = <<"1", "+", "2", "*", "3">>
    /\ psRet = ExInt(7)

(***************************************************************************)
(* Claims about decodeJSONNumber (SpecNumber)                              *)
(***************************************************************************)
\* the text is an optional minus sign followed by digits only

C22_IsIntegerText ==
    LET digits == IF numText[1] = "-" THEN Tail(numText) ELSE numText
    IN  \A i \in 1..Len(digits) : digits[i] \in PsDigits

C22_Magnitude == IF numText[1] = "-" THEN Tail(numText) ELSE numText

C22_FitsInt64 ==
    /\ C22_IsIntegerText
    /\ ~NumGreater(C22_Magnitude, IF numText[1] = "-" THEN NumMinInt64 ELSE NumMaxInt64)

C22_HasDot == \E i \in 1..Len(numText) : numText[i] = "."

\* C22: decodeJSONNumber maps a text without '.' that fits int64 to that int,
\* a text with '.' to a float, and an integer text that overflows int64 to a
\* float, and returns no error in any of the three cases.
C22_DecodeJSONNumber ==
    numPc = "decoded" =>
        /\ C22_FitsInt64 =>
             /\ numRet.type = "int" /\ numRet.err = "nil"
             /\ numRet.int = C22_Magnitude
             /\ numRet.neg = (numText[1] = "-" /\ C22_Magnitude # <<"0">>)
        /\ C22_HasDot => numRet.type = "float" /\ numRet.err = "nil"
        /\ C22_IsIntegerText /\ ~C22_FitsInt64 => numRet.type = "float" /\ numRet.err = "nil"

(***************************************************************************)
(* Claims about the HTTP facade (SpecServer)                               *)
(***************************************************************************)
\* execution e starts: its goroutine takes the program it is going to run

C23_Starts(e) == httpEx[e].root = 0 /\ httpEx'[e].root # 0

C24_Holds(r) ==
    \/ evReqs[r].pc \in {"body", "send"}
    \/ evReqs[r].pc = "done" /\ evReqs[r].resp \in {"204 No Content", "aborted"}

\* C24: await_callback returns the data of exactly one request with the
\* endpoint's method, every other request is rejected and not delivered,
\* and requests with another method or a malformed body that came first do
\* not keep a later well-formed request from being delivered: a well-formed
\* request is turned away as "already consumed" only when a well-formed
\* request took the delivery.
C24_ExactlyOneMatchingRequest ==
    /\ (evAwait = "returned" /\ evRet.err = "nil") =>
          /\ evKinds[evRet.request] = "valid"
          /\ evReqs[evRet.request].resp = "204 No Content"
          /\ \A r \in EvRequests \ {evRet.request} :
                evReqs[r].pc = "done" => evReqs[r].resp # "204 No Content"
    /\ \A r \in EvRequests :
          (evKinds[r] = "valid" /\ evReqs[r].resp = "400 Callback request is already consumed") =>
              \E q \in EvRequests : evKinds[q] = "valid" /\ C24_Holds(q)

(***************************************************************************)
(* Claims about SymbolTable.KeysChan (SpecKeys)                            *)
(***************************************************************************)
\* the goroutine of KeysChan has returned

C28_Returned == kcPc = "range" /\ kcScope = Len(kcChain) + 1

\* C28: the stream delivers the keys of a parent scope before those of its
\* child and every key of every scope, and when the last key has been
\* delivered the stream ends, so that the loop reading it terminates.
C28_KeysStreamEnds ==
    /\ \A i, j \in 1..Len(kcKeys) : i < j => kcKeys[i].scope <= kcKeys[j].scope
    /\ C28_Returned =>
          /\ \A s \in 1..Len(kcChain) : \A key \in kcChain[s] :
                \E i \in 1..Len(kcKeys) : kcKeys[i] = [scope |-> s, key |-> key]
          /\ \A i, j \in 1..Len(kcKeys) : kcKeys[i] = kcKeys[j] => i = j
          /\ kcClosed

(***************************************************************************)
(* Claims about the except handler's scope (SpecHandler)                   *)
(***************************************************************************)
\* the last value the handler assigned to k; StAbsent when no step of the
\* handler assigns k

C30_LastAssigned(k) ==
    LET at == { s \in 1..Len(hdDef.steps) : hdDef.steps[s].key = k }
    IN  IF at = {} THEN StAbsent
        ELSE hdDef.steps[CHOOSE s \in at : \A u \in at : u <= s].value

====
